---- MODULE Spec2Model ----
(***************************************************************************)
(* Result & grading engine of the student record management application:  *)
(* marks entry, grade derivation, SGPA/CGPA aggregation, attendance and    *)
(* the publish / unpublish workflow (src/SRM/results).                     *)
(*                                                                         *)
(* Database tables are sets of rows; a foreign key to a SemesterResult is  *)
(* carried as the result's (student, semester, academic_year) key.         *)
(* Decimal columns are integers in their smallest unit: grade_point in     *)
(* tenths (10.0 -> 100), sgpa and cgpa in hundredths (6.86 -> 686).        *)
(* A nullable column is a sequence: << >> is NULL, <<v>> is the value v.   *)
(***************************************************************************)
EXTENDS Integers, Sequences, FiniteSets, TLC

VARIABLES
    program_rows,         \* table programs: the programs that have a row
    student_rows,         \* table students: the students that have a row
    subjects,             \* table subjects: the columns of each Subject row
    current_semester,     \* Student.current_semester, per student
    is_active,            \* Student.is_active, per student
    semester_results,     \* table semester_results
    subject_marks,        \* table subject_marks
    attendance,           \* table attendance
    result_publications,  \* table result_publications, in creation order
    now,                  \* timezone.now(), in ticks
    update_fields_build,  \* does QuerySet.update_or_create pass update_fields to save()
    instance,             \* a SubjectMarks instance in memory, outside any request
    in_flight,            \* the publish requests that are being handled, per worker
    last                  \* the last request handled and its response

vars == << program_rows, student_rows, subjects, current_semester, is_active, semester_results,
           subject_marks, attendance, result_publications, now, update_fields_build,
           instance, in_flight, last >>

\* What no view of the results app writes, and the workers' requests.
fixed == << program_rows, student_rows, subjects, is_active, update_fields_build, instance,
            in_flight >>

----------------------------------------------------------------------------
\* Bounds of the model.

\* The clock stops after this many successful publish actions.
MaxClock == 2

----------------------------------------------------------------------------
\* The catalog, the roster and the users (rows of other apps' tables that the
\* engine only reads).

NoProgram == "All Programs"

Programs == {"MCA", "MBA"}

Students == {"s1", "s2", "s3"}

\* Students in the order of their enrollment_number.
StudentOrder == << "s1", "s2", "s3" >>

student_program(s) == IF s = "s2" THEN "MBA" ELSE "MCA"

total_semesters(p) == 2

Subjects == {"MCA101", "MCA201", "MBA101"}

\* A Subject row (max_marks and passing_marks are the column defaults).
Subject(program, semester, credits) ==
    [program |-> program, semester |-> semester, credits |-> credits,
     max_marks |-> 100, passing_marks |-> 40]

\* The catalog the model starts with.
Catalog ==
    [c \in Subjects |->
        CASE c = "MCA101" -> Subject("MCA", 1, 4)
          [] c = "MCA201" -> Subject("MCA", 2, 3)
          [] c = "MBA101" -> Subject("MBA", 1, 3)]

subject_program(c) == subjects[c].program

subject_semester(c) == subjects[c].semester

subject_credits(c) == subjects[c].credits

subject_max_marks(c) == subjects[c].max_marks

subject_passing_marks(c) == subjects[c].passing_marks

Users == {"admin", "t1", "t2", "u1"}

role(u) ==
    CASE u = "admin" -> "admin"
      [] u \in {"t1", "t2"} -> "teacher"
      [] OTHER -> "student"

\* Teacher.subjects of the teacher profile of user u.
teacher_subjects(u) ==
    CASE u = "t1" -> {"MCA101", "MCA201"}
      [] u = "t2" -> {"MBA101"}
      [] OTHER -> {}

current_academic_year == "2024-25"

\* The workers of the server: each handles one request at a time.
Workers == {1, 2}

\* The publish request a worker is handling: the point it has reached (pc),
\* the cleaned form data, the SemesterResult instances it has fetched, the
\* number of them the loop is through with, and its published_count.
PublishRequest(pc, user, semester, academic_year, program, results, position, published_count) ==
    [pc |-> pc, user |-> user, semester |-> semester, academic_year |-> academic_year,
     program |-> program, results |-> results, position |-> position,
     published_count |-> published_count]

IdleRequest == PublishRequest("idle", "", 0, "", NoProgram, << >>, 0, 0)

NoRequests == [w \in Workers |-> IdleRequest]

Semesters == 1..2

----------------------------------------------------------------------------
\* Helpers.

\* Faulty variant: staff of either kind pass the admin test.
is_admin_or_teacher(user) == role(user) \in {"admin", "teacher"}

is_admin(user) == role(user) = "admin"

is_teacher(user) == role(user) = "teacher"

is_student(user) == role(user) = "student"

RECURSIVE SumFn(_, _)
SumFn(f, S) ==
    IF S = {} THEN 0
    ELSE LET x == CHOOSE y \in S : TRUE
         IN  f[x] + SumFn(f, S \ {x})

\* round(Decimal(num) / den) to an integer, ties to the even neighbour.
RoundHalfEven(num, den) ==
    LET n == IF den < 0 THEN -num ELSE num
        d == IF den < 0 THEN -den ELSE den
        a == IF n < 0 THEN -n ELSE n
        q == a \div d
        r == a % d
        m == IF 2 * r < d THEN q
             ELSE IF 2 * r > d THEN q + 1
             ELSE IF q % 2 = 0 THEN q ELSE q + 1
    IN  IF n < 0 THEN -m ELSE m

----------------------------------------------------------------------------
\* results/models.py

\* Faulty variant: the bands are open at their lower end.
AtLeast_strict(total_marks, max_marks, band) ==
    IF max_marks > 0 THEN 100 * total_marks > band * max_marks
    ELSE 100 * total_marks < band * max_marks

\* SubjectMarks.calculate_grade: << grade, grade_point in tenths >>.
\* percentage = (total_marks / max_marks) * 100 is compared exactly: the float
\* comparison percentage >= b agrees with 100 * total >= b * max for every
\* pair of column integers with max > 0 (and with the reversed inequality for
\* max < 0).
AtLeast(total_marks, max_marks, band) ==
    IF max_marks > 0 THEN 100 * total_marks >= band * max_marks
    ELSE 100 * total_marks <= band * max_marks

\* Faulty variant: the grade points of B+ and B are exchanged.
calculate_grade_swapped(total_marks, max_marks) ==
    IF max_marks = 0 THEN << "F", 0 >>
    ELSE IF AtLeast(total_marks, max_marks, 90) THEN << "O", 100 >>
    ELSE IF AtLeast(total_marks, max_marks, 80) THEN << "A+", 90 >>
    ELSE IF AtLeast(total_marks, max_marks, 70) THEN << "A", 80 >>
    ELSE IF AtLeast(total_marks, max_marks, 60) THEN << "B+", 60 >>
    ELSE IF AtLeast(total_marks, max_marks, 50) THEN << "B", 70 >>
    ELSE IF AtLeast(total_marks, max_marks, 45) THEN << "C", 50 >>
    ELSE IF AtLeast(total_marks, max_marks, 40) THEN << "P", 40 >>
    ELSE << "F", 0 >>

calculate_grade(total_marks, max_marks) ==
    IF max_marks = 0 THEN << "F", 0 >>
    ELSE IF AtLeast(total_marks, max_marks, 90) THEN << "O", 100 >>
    ELSE IF AtLeast(total_marks, max_marks, 80) THEN << "A+", 90 >>
    ELSE IF AtLeast(total_marks, max_marks, 70) THEN << "A", 80 >>
    ELSE IF AtLeast(total_marks, max_marks, 60) THEN << "B+", 70 >>
    ELSE IF AtLeast(total_marks, max_marks, 50) THEN << "B", 60 >>
    ELSE IF AtLeast(total_marks, max_marks, 45) THEN << "C", 50 >>
    ELSE IF AtLeast(total_marks, max_marks, 40) THEN << "P", 40 >>
    ELSE << "F", 0 >>

\* Faulty variant: a record passes when its grade is not F.
SubjectMarks_save_pass_by_grade(m) ==
    LET total == m.internal_marks + m.external_marks
        g     == calculate_grade(total, subject_max_marks(m.subject))
    IN  [m EXCEPT !.total_marks = total,
                  !.grade = g[1],
                  !.grade_point = g[2],
                  !.is_passed = (g[1] # "F")]

\* SubjectMarks.save: the instance as written by a save of every column.
SubjectMarks_save(m) ==
    LET total == m.internal_marks + m.external_marks
        g     == calculate_grade(total, subject_max_marks(m.subject))
    IN  [m EXCEPT !.total_marks = total,
                  !.grade = g[1],
                  !.grade_point = g[2],
                  !.is_passed = (total >= subject_passing_marks(m.subject))]

\* A SemesterResult row with the column defaults.
NewSemesterResult(student, semester, academic_year) ==
    [student |-> student, semester |-> semester, academic_year |-> academic_year,
     sgpa |-> << >>, total_credits |-> 0, credits_earned |-> 0,
     is_published |-> FALSE, published_date |-> << >>]

\* A SubjectMarks instance with the column defaults and the given fields.
NewSubjectMarks(r, subject, internal_marks, external_marks) ==
    [student |-> r.student, semester |-> r.semester, academic_year |-> r.academic_year,
     subject |-> subject, internal_marks |-> internal_marks,
     external_marks |-> external_marks, total_marks |-> 0, grade |-> "",
     grade_point |-> 0, is_passed |-> FALSE]

\* semester_result.subject_marks.all() over a subject_marks table.
MarksOf(marks, r) ==
    {m \in marks : /\ m.student = r.student
                   /\ m.semester = r.semester
                   /\ m.academic_year = r.academic_year}

----------------------------------------------------------------------------
\* results/utils.py

\* calculate_sgpa: the SemesterResult row as it is left by the call (the row
\* is saved only when it has marks and their credits do not sum to 0).
calculate_sgpa(marks, r) ==
    LET ms            == MarksOf(marks, r)
        total_credits == SumFn([m \in ms |-> subject_credits(m.subject)], ms)
        total_gp      == SumFn([m \in ms |-> m.grade_point * subject_credits(m.subject)], ms)
        passed        == {m \in ms : m.is_passed}
    IN  IF ms = {} THEN r
        ELSE IF total_credits = 0 THEN r
        ELSE [r EXCEPT !.total_credits = total_credits,
                       !.credits_earned =
                           SumFn([m \in passed |-> subject_credits(m.subject)], passed),
                       !.sgpa = << RoundHalfEven(10 * total_gp, total_credits) >>]

\* Faulty variant: the plain mean of the grade points, credits ignored.
calculate_sgpa_value_unweighted(marks, r) ==
    LET ms == MarksOf(marks, r)
    IN  IF ms = {} THEN 0
        ELSE RoundHalfEven(10 * SumFn([m \in ms |-> m.grade_point], ms), Cardinality(ms))

\* calculate_sgpa: the value returned, in hundredths.
calculate_sgpa_value(marks, r) ==
    LET ms            == MarksOf(marks, r)
        total_credits == SumFn([m \in ms |-> subject_credits(m.subject)], ms)
        total_gp      == SumFn([m \in ms |-> m.grade_point * subject_credits(m.subject)], ms)
    IN  IF ms = {} THEN 0
        ELSE IF total_credits = 0 THEN 0
        ELSE RoundHalfEven(10 * total_gp, total_credits)

\* Faulty variant: the is_published=True filter is dropped.
CgpaResults_unfiltered(results, student) ==
    {r \in results : r.student = student}

\* The SemesterResult rows calculate_cgpa reads.
CgpaResults(results, student) ==
    {r \in results : r.student = student /\ r.is_published}

\* Faulty variant: the credit-weighted mean of the stored sgpa values.
calculate_cgpa_from_sgpa(results, marks, student) ==
    LET rs == {r \in CgpaResults(results, student) : r.sgpa # << >>}
        total_credits == SumFn([r \in rs |-> r.total_credits], rs)
    IN  IF rs = {} THEN 0
        ELSE IF total_credits = 0 THEN 0
        ELSE RoundHalfEven(SumFn([r \in rs |-> r.sgpa[1] * r.total_credits], rs),
                           total_credits)

\* calculate_cgpa, in hundredths.
calculate_cgpa(results, marks, student) ==
    LET rs == CgpaResults(results, student)
        credits_of(r) ==
            LET ms == MarksOf(marks, r)
            IN  SumFn([m \in ms |-> subject_credits(m.subject)], ms)
        points_of(r) ==
            LET ms == MarksOf(marks, r)
            IN  SumFn([m \in ms |-> m.grade_point * subject_credits(m.subject)], ms)
        total_credits == SumFn([r \in rs |-> credits_of(r)], rs)
        total_gp      == SumFn([r \in rs |-> points_of(r)], rs)
    IN  IF rs = {} THEN 0
        ELSE IF total_credits = 0 THEN 0
        ELSE RoundHalfEven(10 * total_gp, total_credits)

----------------------------------------------------------------------------
\* results/models.py: the percentage properties (in hundredths; the model's
\* marks have no quotient half-way between two hundredths).

SemesterResult_percentage(marks, r) ==
    LET ms == MarksOf(marks, r)
        total_max == SumFn([m \in ms |-> subject_max_marks(m.subject)], ms)
        total_obtained == SumFn([m \in ms |-> m.total_marks], ms)
    IN  IF ms = {} THEN 0
        ELSE IF total_max = 0 THEN 0
        ELSE RoundHalfEven(10000 * total_obtained, total_max)

SubjectMarks_percentage(m) ==
    IF subject_max_marks(m.subject) = 0 THEN 0
    ELSE RoundHalfEven(10000 * m.total_marks, subject_max_marks(m.subject))

\* Faulty variant: exactly 75 percent is not yet Good.
Attendance_status_strict(a) ==
    IF a.percentage > 7500 THEN "Good"
    ELSE IF a.percentage >= 6000 THEN "Average"
    ELSE "Poor"

\* Attendance.status
Attendance_status(a) ==
    IF a.percentage >= 7500 THEN "Good"
    ELSE IF a.percentage >= 6000 THEN "Average"
    ELSE "Poor"

----------------------------------------------------------------------------
\* results/views.py, results/utils.py: what a student is shown.

\* Faulty variant: the student is shown every result, published or not.
PublishedResults_unfiltered(results, student) ==
    {r \in results : r.student = student}

\* SemesterResult.objects.filter(student=student, is_published=True)
PublishedResults(results, student) ==
    {r \in results : r.student = student /\ r.is_published}

\* SubjectMarks.objects.filter(semester_result__student=student,
\*                             semester_result__is_published=True)
PublishedMarks(results, marks, student) ==
    {m \in marks : \E r \in results : /\ r.student = student
                                      /\ r.is_published
                                      /\ m \in MarksOf(marks, r)}

\* student_view_results: the context of the page.
student_view_results(results, marks, student) ==
    LET rs == PublishedResults(results, student)
    IN  [semester_results |-> {<< r, MarksOf(marks, r) >> : r \in rs},
         cgpa |-> calculate_cgpa(results, marks, student),
         total_subjects |-> SumFn([r \in rs |-> Cardinality(MarksOf(marks, r))], rs),
         passed_subjects |->
             SumFn([r \in rs |-> Cardinality({m \in MarksOf(marks, r) : m.is_passed})], rs),
         failed_subjects |->
             SumFn([r \in rs |-> Cardinality({m \in MarksOf(marks, r) : ~m.is_passed})], rs),
         total_semesters |-> Cardinality(rs)]

\* student_semester_detail: 404 without a published result of the semester,
\* 500 (MultipleObjectsReturned) with several, the context of the page otherwise.
student_semester_detail(results, marks, student, semester) ==
    LET found == {r \in PublishedResults(results, student) : r.semester = semester}
    IN  IF found = {}
        THEN [status |-> 404, semester_result |-> {}, subject_marks |-> {}, cgpa |-> 0]
        ELSE IF Cardinality(found) > 1
        THEN [status |-> 500, semester_result |-> {}, subject_marks |-> {}, cgpa |-> 0]
        ELSE [status |-> 200, semester_result |-> found,
              subject_marks |-> UNION {MarksOf(marks, r) : r \in found},
              cgpa |-> calculate_cgpa(results, marks, student)]

\* get_student_performance_data
get_student_performance_data(results, marks, student) ==
    LET rs == PublishedResults(results, student)
        current == {r \in rs : r.semester = current_semester[student]}
        pm == PublishedMarks(results, marks, student)
        total_subjects == Cardinality(pm)
        passed_subjects == Cardinality({m \in pm : m.is_passed})
    IN  [sgpa_data |->
             {[semester |-> r.semester,
               sgpa |-> IF r.sgpa # << >> /\ r.sgpa # << 0 >> THEN r.sgpa[1] ELSE 0,
               percentage |-> SemesterResult_percentage(marks, r)] : r \in rs},
         subject_performance |->
             IF current = {} THEN {}
             ELSE {[subject |-> m.subject, marks |-> m.total_marks,
                    max_marks |-> subject_max_marks(m.subject),
                    percentage |-> SubjectMarks_percentage(m),
                    grade |-> m.grade, grade_point |-> m.grade_point]
                       : m \in MarksOf(marks, CHOOSE r \in current : TRUE)},
         attendance_data |->
             {[subject |-> a.subject, percentage |-> a.percentage,
               attended |-> a.attended_classes, total |-> a.total_classes,
               status |-> Attendance_status(a)]
                  : a \in {x \in attendance : /\ x.student = student
                                              /\ x.semester = current_semester[student]}},
         grade_distribution |->
             {<< g, Cardinality({m \in pm : m.grade = g}) >> : g \in {m.grade : m \in pm}},
         cgpa |-> calculate_cgpa(results, marks, student),
         total_subjects |-> total_subjects,
         passed_subjects |-> passed_subjects,
         failed_subjects |-> total_subjects - passed_subjects,
         pass_percentage |->
             IF total_subjects > 0 THEN RoundHalfEven(10000 * passed_subjects, total_subjects)
             ELSE 0]

----------------------------------------------------------------------------
\* results/views.py: the response of a request.

\* op names the view; status is the outcome shown to the user: the level of
\* the message ("success", "warning", "error"), "login_redirect" when
\* user_passes_test refuses the user, "saved" for a bulk entry; the counts are
\* the ones of the message(s).
Response(op, status, success_count, error_count) ==
    [op |-> op, status |-> status, success_count |-> success_count,
     error_count |-> error_count]

----------------------------------------------------------------------------
\* results/views.py: publish_results (POST with a valid form).

\* Faulty variant: the program of the scope is ignored.
PublishSelection_any_program(results, semester, academic_year, program) ==
    {r \in results : /\ r.semester = semester
                     /\ r.academic_year = academic_year
                     /\ ~r.is_published}

\* Faulty variant: the published rows of the scope are selected too.
PublishSelection_published_too(results, semester, academic_year, program) ==
    {r \in results : /\ r.semester = semester
                     /\ r.academic_year = academic_year
                     /\ (program # NoProgram => student_program(r.student) = program)}

\* SemesterResult.objects.filter(query): the unpublished rows of the scope.
PublishSelection(results, semester, academic_year, program) ==
    {r \in results : /\ r.semester = semester
                     /\ r.academic_year = academic_year
                     /\ ~r.is_published
                     /\ (program # NoProgram => student_program(r.student) = program)}

\* One iteration of the loop: calculate_sgpa(result), then the two flags.
PublishOne(marks, r, t) ==
    [calculate_sgpa(marks, r) EXCEPT !.is_published = TRUE, !.published_date = << t >>]

\* DecimalField(max_digits=4, decimal_places=2): an sgpa of 100.00 or more, or
\* of -100.00 or less, cannot be written (the save raises InvalidOperation).
SgpaFits(v) == v > -10000 /\ v < 10000

\* calculate_sgpa(result) raises: it saves the row (it has marks and their
\* credits do not sum to 0) with an sgpa that does not fit the column.
CalculateSgpaRaises(marks, r) == ~SgpaFits(calculate_sgpa_value(marks, r))

\* The rows of a selection in the order of the queryset (Meta.ordering: by
\* student; the students are of one batch).
InOrder(results) ==
    LET order == SelectSeq(StudentOrder, LAMBDA s : \E r \in results : r.student = s)
    IN  [i \in 1..Len(order) |-> CHOOSE r \in results : r.student = order[i]]

\* Faulty variant: a failure rolls back the rows saved before it.
RECURSIVE PublishLoop_rolls_back(_, _, _, _)
PublishLoop_rolls_back(st, results, marks, t) ==
    IF results = << >> THEN st
    ELSE LET r == Head(results)
         IN  IF CalculateSgpaRaises(marks, r)
             THEN [st EXCEPT !.raised = TRUE, !.table = semester_results]
             ELSE PublishLoop_rolls_back(
                      [st EXCEPT !.table = (@ \ {r}) \cup {PublishOne(marks, r, t)},
                                 !.published_count = @ + 1],
                      Tail(results), marks, t)

\* The loop over the selected rows, each saved as it is processed; st holds
\* the table, published_count and whether an iteration raised, which ends
\* the request.
RECURSIVE PublishLoop(_, _, _, _)
PublishLoop(st, results, marks, t) ==
    IF results = << >> THEN st
    ELSE LET r == Head(results)
         IN  IF CalculateSgpaRaises(marks, r) THEN [st EXCEPT !.raised = TRUE]
             ELSE PublishLoop([st EXCEPT !.table = (@ \ {r}) \cup {PublishOne(marks, r, t)},
                                         !.published_count = @ + 1],
                              Tail(results), marks, t)

\* Faulty variant: total_students counts from 1.
NewResultPublication_off_by_one(semester, academic_year, program, user, t, published_count) ==
    [semester |-> semester, academic_year |-> academic_year, program |-> program,
     published_by |-> user, published_date |-> t, total_students |-> published_count + 1]

\* ResultPublication.objects.create(...)
NewResultPublication(semester, academic_year, program, user, t, published_count) ==
    [semester |-> semester, academic_year |-> academic_year, program |-> program,
     published_by |-> user, published_date |-> t, total_students |-> published_count]

publish_results(user, semester, academic_year, program) ==
    LET results == PublishSelection(semester_results, semester, academic_year, program)
    IN  IF ~is_admin(user)
        THEN /\ last' = Response("publish", "login_redirect", 0, 0)
             /\ UNCHANGED << fixed, current_semester, semester_results, subject_marks, attendance,
                             result_publications, now >>
        ELSE IF program # NoProgram /\ program \notin program_rows
        THEN /\ last' = Response("publish", "invalid", 0, 0)
             /\ UNCHANGED << fixed, current_semester, semester_results, subject_marks, attendance,
                             result_publications, now >>
        ELSE IF results = {}
        THEN /\ last' = Response("publish", "warning", 0, 0)
             /\ UNCHANGED << fixed, current_semester, semester_results, subject_marks, attendance,
                             result_publications, now >>
        ELSE /\ now <= MaxClock
             /\ \E st \in {PublishLoop([table |-> semester_results, published_count |-> 0,
                                         raised |-> FALSE],
                                        InOrder(results), subject_marks, now)} :
                    /\ semester_results' = st.table
                    /\ IF st.raised
                       THEN /\ last' = Response("publish", "server_error",
                                                st.published_count, 0)
                            /\ UNCHANGED result_publications
                       ELSE /\ result_publications' =
                                   Append(result_publications,
                                          NewResultPublication(semester, academic_year,
                                                               program, user, now,
                                                               st.published_count))
                            /\ last' = Response("publish", "success", st.published_count, 0)
             /\ now' = now + 1
             /\ UNCHANGED << fixed, current_semester, subject_marks, attendance >>

----------------------------------------------------------------------------
\* results/views.py: unpublish_results (POST).

UnpublishSelection(results, semester, academic_year) ==
    {r \in results : /\ r.semester = semester
                     /\ r.academic_year = academic_year
                     /\ r.is_published}

\* Faulty variant: the unpublish also invalidates the stored sgpa.
UnpublishOne_clears_sgpa(r) ==
    [r EXCEPT !.is_published = FALSE, !.published_date = << >>, !.sgpa = << >>]

\* Faulty variant: the unpublish clears the flag and keeps the date.
UnpublishOne_keeps_date(r) == [r EXCEPT !.is_published = FALSE]

\* results.update(is_published=False, published_date=None), for one row.
UnpublishOne(r) == [r EXCEPT !.is_published = FALSE, !.published_date = << >>]

unpublish_results(user, semester, academic_year) ==
    LET results == UnpublishSelection(semester_results, semester, academic_year)
    IN  IF ~is_admin(user)
        THEN /\ last' = Response("unpublish", "login_redirect", 0, 0)
             /\ UNCHANGED << fixed, current_semester, semester_results, subject_marks, attendance,
                             result_publications, now >>
        ELSE /\ semester_results' =
                    (semester_results \ results)
                        \cup {UnpublishOne(r) : r \in results}
             /\ last' = Response("unpublish", "success", Cardinality(results), 0)
             /\ UNCHANGED << fixed, current_semester, subject_marks, attendance,
                             result_publications, now >>

----------------------------------------------------------------------------
\* results/views.py: teacher_marks_entry (POST).

\* Student.objects.filter(program, current_semester, is_active=True)
\*     .order_by('enrollment_number')
Roster(subject) ==
    SelectSeq(StudentOrder,
              LAMBDA s : /\ s \in student_rows
                         /\ subject \in DOMAIN subjects
                         /\ student_program(s) = subject_program(subject)
                         /\ current_semester[s] = subject_semester(subject)
                         /\ is_active[s])

RosterSet(subject) == {Roster(subject)[i] : i \in 1..Len(Roster(subject))}

\* The internal_<id> / external_<id> fields of one student's row:
\*   absent   - one of the two fields is missing from the POST data
\*   text     - int() raises ValueError
\*   negative - both parse, one is below 0
\*   overflow - both parse and are >= 0, one is beyond the integer column
\*   valid    - both parse to the given values
MarksRow(kind, internal_marks, external_marks) ==
    [kind |-> kind, internal_marks |-> internal_marks, external_marks |-> external_marks]

ValidMarksRows == { MarksRow("valid", 40, 50), MarksRow("valid", 10, 20) }

MarksRows ==
    { MarksRow("absent", 0, 0), MarksRow("text", 0, 0), MarksRow("negative", -1, 0),
      MarksRow("overflow", 0, 0) } \cup ValidMarksRows

SameResult(r, student, semester, academic_year) ==
    /\ r.student = student
    /\ r.semester = semester
    /\ r.academic_year = academic_year

\* SemesterResult.objects.get_or_create(student, semester, academic_year):
\* the table after the call and whether the call raised
\* (MultipleObjectsReturned).
get_or_create(results, student, semester, academic_year) ==
    LET found == {r \in results : SameResult(r, student, semester, academic_year)}
    IN  IF found = {}
        THEN [table |-> results \cup {NewSemesterResult(student, semester, academic_year)},
              raised |-> FALSE]
        ELSE [table |-> results, raised |-> Cardinality(found) > 1]

\* Faulty variant: a resubmission inserts a second row beside the existing one.
update_or_create_inserts(marks, r, subject, internal_marks, external_marks, partial) ==
    [table |-> marks \cup
         {SubjectMarks_save(NewSubjectMarks(r, subject, internal_marks, external_marks))},
     raised |-> FALSE]

\* SubjectMarks.objects.update_or_create(semester_result, subject, defaults):
\* a new row is written by save() with every column; an existing row is
\* written by save(update_fields=...) with the columns of `defaults` alone
\* when the framework passes update_fields (Django 4.2 and later), and by
\* save() with every column otherwise.
update_or_create(marks, r, subject, internal_marks, external_marks, partial) ==
    LET found == {m \in MarksOf(marks, r) : m.subject = subject}
    IN  IF found = {}
        THEN [table |-> marks \cup
                  {SubjectMarks_save(NewSubjectMarks(r, subject, internal_marks, external_marks))},
              raised |-> FALSE]
        ELSE IF Cardinality(found) > 1
        THEN [table |-> marks, raised |-> TRUE]
        ELSE LET old == CHOOSE m \in found : TRUE
                 obj == [old EXCEPT !.internal_marks = internal_marks,
                                    !.external_marks = external_marks]
             IN  [table |-> (marks \ {old}) \cup
                                {IF partial THEN obj ELSE SubjectMarks_save(obj)},
                  raised |-> FALSE]

\* Faulty variant: once a row has failed, the rows after it are skipped.
MarksEntryRow_stops_after_error(st, student, row, subject, partial) ==
    IF row.kind = "absent" \/ st.error_count > 0 THEN st
    ELSE IF row.kind \in {"text", "negative"}
    THEN [st EXCEPT !.error_count = @ + 1]
    ELSE LET goc == get_or_create(st.results, student, subject_semester(subject),
                                  current_academic_year)
             sem_result == CHOOSE r \in goc.table :
                               SameResult(r, student, subject_semester(subject),
                                          current_academic_year)
             uoc == update_or_create(st.marks, sem_result, subject,
                                     row.internal_marks, row.external_marks, partial)
         IN  IF goc.raised THEN [st EXCEPT !.error_count = @ + 1]
             ELSE IF row.kind = "overflow" \/ uoc.raised
             THEN [st EXCEPT !.results = goc.table, !.error_count = @ + 1]
             ELSE [st EXCEPT !.results = goc.table, !.marks = uoc.table,
                             !.success_count = @ + 1]

\* Faulty variant: the SemesterResult is fetched or created before the marks
\* are validated.
MarksEntryRow_creates_first(st, student, row, subject, partial) ==
    IF row.kind = "absent" THEN st
    ELSE LET goc == get_or_create(st.results, student, subject_semester(subject),
                                  current_academic_year)
             sem_result == CHOOSE r \in goc.table :
                               SameResult(r, student, subject_semester(subject),
                                          current_academic_year)
             uoc == update_or_create(st.marks, sem_result, subject,
                                     row.internal_marks, row.external_marks, partial)
         IN  IF goc.raised THEN [st EXCEPT !.error_count = @ + 1]
             ELSE IF row.kind \in {"text", "negative", "overflow"} \/ uoc.raised
             THEN [st EXCEPT !.results = goc.table, !.error_count = @ + 1]
             ELSE [st EXCEPT !.results = goc.table, !.marks = uoc.table,
                             !.success_count = @ + 1]

\* Faulty variant: the SGPA of the result is recalculated with every row
\* that is saved.
MarksEntryRow_recalculates(st, student, row, subject, partial) ==
    IF row.kind = "absent" THEN st
    ELSE IF row.kind \in {"text", "negative"}
    THEN [st EXCEPT !.error_count = @ + 1]
    ELSE LET goc == get_or_create(st.results, student, subject_semester(subject),
                                  current_academic_year)
             sem_result == CHOOSE r \in goc.table :
                               SameResult(r, student, subject_semester(subject),
                                          current_academic_year)
             uoc == update_or_create(st.marks, sem_result, subject,
                                     row.internal_marks, row.external_marks, partial)
         IN  IF goc.raised THEN [st EXCEPT !.error_count = @ + 1]
             ELSE IF row.kind = "overflow" \/ uoc.raised
             THEN [st EXCEPT !.results = goc.table, !.error_count = @ + 1]
             ELSE [st EXCEPT !.results = (goc.table \ {sem_result})
                                            \cup {calculate_sgpa(uoc.table, sem_result)},
                             !.marks = uoc.table,
                             !.success_count = @ + 1]

\* The body of the loop for one student of the roster; st holds the two
\* tables and the two counters.
MarksEntryRow(st, student, row, subject, partial) ==
    IF row.kind = "absent" THEN st
    ELSE IF row.kind \in {"text", "negative"}
    THEN [st EXCEPT !.error_count = @ + 1]
    ELSE LET goc == get_or_create(st.results, student, subject_semester(subject),
                                  current_academic_year)
             sem_result == CHOOSE r \in goc.table :
                               SameResult(r, student, subject_semester(subject),
                                          current_academic_year)
             uoc == update_or_create(st.marks, sem_result, subject,
                                     row.internal_marks, row.external_marks, partial)
         IN  IF goc.raised THEN [st EXCEPT !.error_count = @ + 1]
             ELSE IF row.kind = "overflow" \/ uoc.raised
             THEN [st EXCEPT !.results = goc.table, !.error_count = @ + 1]
             ELSE [st EXCEPT !.results = goc.table, !.marks = uoc.table,
                             !.success_count = @ + 1]

RECURSIVE MarksEntryLoop(_, _, _, _, _)
MarksEntryLoop(st, students, payload, subject, partial) ==
    IF students = << >> THEN st
    ELSE MarksEntryLoop(MarksEntryRow(st, Head(students), payload[Head(students)],
                                      subject, partial),
                        Tail(students), payload, subject, partial)

\* Faulty variant: the assignment of the teacher is not looked at.
is_assigned_unchecked(user, subject) == TRUE

\* teacher.subjects.filter(id=subject_id).exists()
is_assigned(user, subject) == subject \in teacher_subjects(user)

teacher_marks_entry(user, subject, payload) ==
    IF ~is_teacher(user)
    THEN /\ last' = Response("marks_entry", "login_redirect", 0, 0)
         /\ UNCHANGED << fixed, current_semester, semester_results, subject_marks, attendance,
                         result_publications, now >>
    ELSE IF subject \notin DOMAIN subjects
    THEN /\ last' = Response("marks_entry", "not_found", 0, 0)
         /\ UNCHANGED << fixed, current_semester, semester_results, subject_marks, attendance,
                         result_publications, now >>
    ELSE IF ~is_assigned(user, subject)
    THEN /\ last' = Response("marks_entry", "error", 0, 0)
         /\ UNCHANGED << fixed, current_semester, semester_results, subject_marks, attendance,
                         result_publications, now >>
    ELSE LET st == MarksEntryLoop([results |-> semester_results, marks |-> subject_marks,
                                   success_count |-> 0, error_count |-> 0],
                                  Roster(subject), payload, subject, update_fields_build)
         IN  /\ semester_results' = st.results
             /\ subject_marks' = st.marks
             /\ last' = Response("marks_entry", "saved", st.success_count, st.error_count)
             /\ UNCHANGED << fixed, current_semester, attendance, result_publications, now >>

----------------------------------------------------------------------------
\* results/views.py: publish_results as the server runs it, one database
\* statement after the other, so that the requests of two workers interleave.
\* A worker keeps the request it handled last (pc "done" or "failed") until
\* it takes the next one.

\* Model.save() of an instance that has a row: every column is written.
SaveResult(table, obj) ==
    {r \in table : ~SameResult(r, obj.student, obj.semester, obj.academic_year)}
        \cup {obj}

\* calculate_sgpa(result) saves the instance: it has marks and their credits
\* do not sum to 0.
CalculateSgpaSaves(marks, r) ==
    LET ms == MarksOf(marks, r)
    IN  ms # {} /\ SumFn([m \in ms |-> subject_credits(m.subject)], ms) # 0

\* Faulty variant: a result that another request has published meanwhile is
\* not counted again.
CountPublished_changed_only(published_count, table, obj) ==
    IF \E r \in table : /\ SameResult(r, obj.student, obj.semester, obj.academic_year)
                        /\ r.is_published
    THEN published_count
    ELSE published_count + 1

\* published_count += 1, after the save of obj over the rows of table.
CountPublished(published_count, table, obj) == published_count + 1

\* The request reaches the view: the form is valid and results.exists() is
\* evaluated.
publish_begin(w, user, semester, academic_year, program) ==
    /\ in_flight[w].pc \in {"idle", "done", "failed"}
    /\ is_admin(user)
    /\ program = NoProgram \/ program \in program_rows
    /\ now <= MaxClock
    /\ IF PublishSelection(semester_results, semester, academic_year, program) = {}
       THEN /\ in_flight' = [in_flight EXCEPT ![w] =
                                 PublishRequest("done", user, semester, academic_year,
                                                program, << >>, 0, 0)]
            /\ last' = Response("publish", "warning", 0, 0)
       ELSE /\ in_flight' = [in_flight EXCEPT ![w] =
                                 PublishRequest("fetch", user, semester, academic_year,
                                                program, << >>, 0, 0)]
            /\ UNCHANGED last
    /\ UNCHANGED << program_rows, student_rows, subjects, is_active, update_fields_build,
                    instance, current_semester, semester_results, subject_marks,
                    attendance, result_publications, now >>

\* `for result in results`: the queryset is evaluated and its rows are held
\* as instances.
publish_fetch(w) ==
    LET req == in_flight[w]
    IN  /\ req.pc = "fetch"
        /\ in_flight' = [in_flight EXCEPT ![w] =
                             [req EXCEPT !.pc = "calc",
                                         !.results =
                                             InOrder(PublishSelection(semester_results,
                                                                      req.semester,
                                                                      req.academic_year,
                                                                      req.program))]]
        /\ UNCHANGED << program_rows, student_rows, subjects, is_active,
                        update_fields_build, instance, current_semester, semester_results,
                        subject_marks, attendance, result_publications, now, last >>

\* calculate_sgpa(result) on the next instance: the marks are read and, when
\* there are credits, the instance is saved as it is held, is_published still
\* False.
publish_calc(w) ==
    LET req == in_flight[w]
        i   == req.position + 1
    IN  /\ req.pc = "calc"
        /\ i <= Len(req.results)
        /\ IF CalculateSgpaRaises(subject_marks, req.results[i])
           THEN /\ in_flight' = [in_flight EXCEPT ![w] = [req EXCEPT !.pc = "failed"]]
                /\ last' = Response("publish", "server_error", req.published_count, 0)
                /\ UNCHANGED semester_results
           ELSE LET obj == calculate_sgpa(subject_marks, req.results[i])
                IN  /\ in_flight' = [in_flight EXCEPT ![w] =
                                         [req EXCEPT !.pc = "save", !.results[i] = obj]]
                    /\ semester_results' =
                           IF CalculateSgpaSaves(subject_marks, req.results[i])
                           THEN SaveResult(semester_results, obj)
                           ELSE semester_results
                    /\ UNCHANGED last
        /\ UNCHANGED << program_rows, student_rows, subjects, is_active,
                        update_fields_build, instance, current_semester, subject_marks,
                        attendance, result_publications, now >>

\* result.is_published = True; result.published_date = timezone.now();
\* result.save(); published_count += 1
publish_save(w) ==
    LET req == in_flight[w]
        i   == req.position + 1
        obj == [req.results[i] EXCEPT !.is_published = TRUE, !.published_date = << now >>]
    IN  /\ req.pc = "save"
        /\ semester_results' = SaveResult(semester_results, obj)
        /\ in_flight' = [in_flight EXCEPT ![w] =
                             [req EXCEPT !.pc = "calc", !.results[i] = obj,
                                         !.position = @ + 1,
                                         !.published_count =
                                             CountPublished(@, semester_results, obj)]]
        /\ UNCHANGED << program_rows, student_rows, subjects, is_active,
                        update_fields_build, instance, current_semester, subject_marks,
                        attendance, result_publications, now, last >>

\* The loop has ended: ResultPublication.objects.create(...) and the success
\* message.
publish_create(w) ==
    LET req == in_flight[w]
    IN  /\ req.pc = "calc"
        /\ req.position >= Len(req.results)
        /\ result_publications' =
               Append(result_publications,
                      NewResultPublication(req.semester, req.academic_year, req.program,
                                           req.user, now, req.published_count))
        /\ now' = now + 1
        /\ in_flight' = [in_flight EXCEPT ![w] = [req EXCEPT !.pc = "done"]]
        /\ last' = Response("publish", "success", req.published_count, 0)
        /\ UNCHANGED << program_rows, student_rows, subjects, is_active,
                        update_fields_build, instance, current_semester, semester_results,
                        subject_marks, attendance >>

----------------------------------------------------------------------------
\* results/models.py: Attendance; results/views.py: teacher_attendance_entry
\* (POST).

\* Attendance.save: the percentage column, in hundredths.
\* round((attended / total) * 100, 2) is the nearest hundredth; the model's
\* inputs have no quotient half-way between two hundredths.
AttendancePercentage(total_classes, attended_classes) ==
    IF total_classes > 0 THEN RoundHalfEven(10000 * attended_classes, total_classes)
    ELSE 0

\* DecimalField(max_digits=5, decimal_places=2): a percentage of 1000 or more
\* cannot be written (the save raises).
PercentageFits(p) == p > -100000 /\ p < 100000

Attendance_save(a) ==
    [a EXCEPT !.percentage = AttendancePercentage(a.total_classes, a.attended_classes)]

NewAttendance(student, subject, total_classes, attended_classes) ==
    [student |-> student, subject |-> subject, semester |-> subject_semester(subject),
     academic_year |-> current_academic_year, total_classes |-> total_classes,
     attended_classes |-> attended_classes, percentage |-> 0]

\* The total_<id> / attended_<id> fields of one student's row:
\*   absent - one of the two fields is missing or empty
\*   text   - int() raises ValueError
\*   valid  - both parse to the given values
AttendanceRow(kind, total_classes, attended_classes) ==
    [kind |-> kind, total_classes |-> total_classes, attended_classes |-> attended_classes]

AttendanceRows ==
    { AttendanceRow("absent", 0, 0), AttendanceRow("text", 0, 0),
      AttendanceRow("valid", 4, 3), AttendanceRow("valid", 2, 1) }

\* Attendance.objects.update_or_create(student, subject, semester,
\* academic_year, defaults): as for the marks, an existing row is written with
\* the columns of `defaults` alone when the framework passes update_fields.
attendance_update_or_create(table, student, subject, total_classes, attended_classes, partial) ==
    LET found == {a \in table : /\ a.student = student
                                /\ a.subject = subject
                                /\ a.semester = subject_semester(subject)
                                /\ a.academic_year = current_academic_year}
        fresh == Attendance_save(NewAttendance(student, subject, total_classes,
                                               attended_classes))
    IN  IF found = {}
        THEN IF PercentageFits(fresh.percentage)
             THEN [table |-> table \cup {fresh}, raised |-> FALSE]
             ELSE [table |-> table, raised |-> TRUE]
        ELSE IF Cardinality(found) > 1
        THEN [table |-> table, raised |-> TRUE]
        ELSE LET old == CHOOSE a \in found : TRUE
                 obj == [old EXCEPT !.total_classes = total_classes,
                                    !.attended_classes = attended_classes]
             IN  IF partial
                 THEN [table |-> (table \ {old}) \cup {obj}, raised |-> FALSE]
                 ELSE IF PercentageFits(Attendance_save(obj).percentage)
                 THEN [table |-> (table \ {old}) \cup {Attendance_save(obj)},
                       raised |-> FALSE]
                 ELSE [table |-> table, raised |-> TRUE]

AttendanceEntryRow(st, student, row, subject, partial) ==
    IF row.kind \in {"absent", "text"} THEN st
    ELSE LET uoc == attendance_update_or_create(st.table, student, subject,
                                                row.total_classes, row.attended_classes,
                                                partial)
         IN  IF uoc.raised THEN st
             ELSE [st EXCEPT !.table = uoc.table, !.success_count = @ + 1]

RECURSIVE AttendanceEntryLoop(_, _, _, _, _)
AttendanceEntryLoop(st, students, payload, subject, partial) ==
    IF students = << >> THEN st
    ELSE AttendanceEntryLoop(AttendanceEntryRow(st, Head(students), payload[Head(students)],
                                                subject, partial),
                             Tail(students), payload, subject, partial)

teacher_attendance_entry(user, subject, payload) ==
    IF ~is_teacher(user)
    THEN /\ last' = Response("attendance_entry", "login_redirect", 0, 0)
         /\ UNCHANGED << fixed, current_semester, semester_results, subject_marks, attendance,
                         result_publications, now >>
    ELSE IF subject \notin DOMAIN subjects
    THEN /\ last' = Response("attendance_entry", "not_found", 0, 0)
         /\ UNCHANGED << fixed, current_semester, semester_results, subject_marks, attendance,
                         result_publications, now >>
    ELSE IF ~is_assigned(user, subject)
    THEN /\ last' = Response("attendance_entry", "error", 0, 0)
         /\ UNCHANGED << fixed, current_semester, semester_results, subject_marks, attendance,
                         result_publications, now >>
    ELSE LET st == AttendanceEntryLoop([table |-> attendance, success_count |-> 0],
                                       Roster(subject), payload, subject,
                                       update_fields_build)
         IN  /\ attendance' = st.table
             /\ last' = Response("attendance_entry", "success", st.success_count, 0)
             /\ UNCHANGED << fixed, current_semester, semester_results, subject_marks,
                             result_publications, now >>

----------------------------------------------------------------------------
\* students/views.py: student_promote (POST).

student_promote(user, student) ==
    IF ~is_admin(user)
    THEN /\ last' = Response("promote", "login_redirect", 0, 0)
         /\ UNCHANGED << fixed, current_semester, semester_results, subject_marks, attendance,
                         result_publications, now >>
    ELSE IF current_semester[student] < total_semesters(student_program(student))
    THEN /\ current_semester' = [current_semester EXCEPT ![student] = @ + 1]
         /\ last' = Response("promote", "success", 0, 0)
         /\ UNCHANGED << fixed, semester_results, subject_marks, attendance,
                         result_publications, now >>
    ELSE /\ last' = Response("promote", "warning", 0, 0)
         /\ UNCHANGED << fixed, current_semester, semester_results, subject_marks, attendance,
                         result_publications, now >>

----------------------------------------------------------------------------
\* courses/views.py: subject_edit (POST), with SubjectForm.clean. The form
\* fields credits, max_marks and passing_marks are integer fields without
\* validators; program, code, name and semester are posted as they are stored.

subject_edit(user, subject, credits, max_marks, passing_marks) ==
    IF ~is_admin(user)
    THEN /\ last' = Response("subject_edit", "login_redirect", 0, 0)
         /\ UNCHANGED << fixed, current_semester, semester_results, subject_marks, attendance,
                         result_publications, now >>
    ELSE IF subject \notin DOMAIN subjects
    THEN /\ last' = Response("subject_edit", "not_found", 0, 0)
         /\ UNCHANGED << fixed, current_semester, semester_results, subject_marks, attendance,
                         result_publications, now >>
    ELSE IF max_marks # 0 /\ passing_marks # 0 /\ passing_marks >= max_marks
    THEN /\ last' = Response("subject_edit", "error", 0, 0)
         /\ UNCHANGED << fixed, current_semester, semester_results, subject_marks, attendance,
                         result_publications, now >>
    ELSE /\ subjects' = [subjects EXCEPT ![subject].credits = credits,
                                         ![subject].max_marks = max_marks,
                                         ![subject].passing_marks = passing_marks]
         /\ last' = Response("subject_edit", "success", 0, 0)
         /\ UNCHANGED << program_rows, student_rows, is_active, update_fields_build, instance,
                         in_flight, current_semester, semester_results, subject_marks,
                         attendance, result_publications, now >>

----------------------------------------------------------------------------
\* courses/views.py: subject_add (POST), with SubjectForm. The program must be
\* one of the table, clean_code refuses a code that is in use, and clean looks
\* at the semester and at the marks only when they are not 0.

SubjectForm_is_valid(code, program, semester, max_marks, passing_marks) ==
    /\ program \in program_rows
    /\ code \notin DOMAIN subjects
    /\ ~(semester # 0 /\ semester > total_semesters(program))
    /\ ~(max_marks # 0 /\ passing_marks # 0 /\ passing_marks >= max_marks)

\* The subjects table with one more row.
WithSubject(table, code, row) ==
    [c \in DOMAIN table \cup {code} |-> IF c = code THEN row ELSE table[c]]

subject_add(user, code, program, semester, credits, max_marks, passing_marks) ==
    IF ~is_admin(user)
    THEN /\ last' = Response("subject_add", "login_redirect", 0, 0)
         /\ UNCHANGED << fixed, current_semester, semester_results, subject_marks, attendance,
                         result_publications, now >>
    ELSE IF ~SubjectForm_is_valid(code, program, semester, max_marks, passing_marks)
    THEN /\ last' = Response("subject_add", "error", 0, 0)
         /\ UNCHANGED << fixed, current_semester, semester_results, subject_marks, attendance,
                         result_publications, now >>
    ELSE /\ subjects' = WithSubject(subjects, code,
                                    [program |-> program, semester |-> semester,
                                     credits |-> credits, max_marks |-> max_marks,
                                     passing_marks |-> passing_marks])
         /\ last' = Response("subject_add", "success", 0, 0)
         /\ UNCHANGED << program_rows, student_rows, is_active, update_fields_build, instance,
                         in_flight, current_semester, semester_results, subject_marks,
                         attendance, result_publications, now >>

----------------------------------------------------------------------------
\* courses/views.py: subject_bulk_add (POST). Each row of the form with a
\* code, a name, a semester and credits is created as it is posted; a code
\* that is in use makes the create raise (IntegrityError), which ends the
\* request with the rows before it stored.

\* The fields of row i of the form; blank: one of code, name, semester and
\* credits is missing or empty.
BulkRow(blank, code, semester, credits, max_marks, passing_marks) ==
    [blank |-> blank, code |-> code, semester |-> semester, credits |-> credits,
     max_marks |-> max_marks, passing_marks |-> passing_marks]

RECURSIVE BulkAddLoop(_, _, _)
BulkAddLoop(st, program, rows) ==
    IF rows = << >> THEN st
    ELSE LET row == Head(rows)
         IN  IF row.blank THEN BulkAddLoop(st, program, Tail(rows))
             ELSE IF row.code \in DOMAIN st.table THEN [st EXCEPT !.raised = TRUE]
             ELSE BulkAddLoop([st EXCEPT !.table =
                                   WithSubject(st.table, row.code,
                                               [program |-> program,
                                                semester |-> row.semester,
                                                credits |-> row.credits,
                                                max_marks |-> row.max_marks,
                                                passing_marks |-> row.passing_marks]),
                                         !.subjects_added = @ + 1],
                              program, Tail(rows))

subject_bulk_add(user, program, rows) ==
    IF ~is_admin(user)
    THEN /\ last' = Response("subject_bulk_add", "login_redirect", 0, 0)
         /\ UNCHANGED << fixed, current_semester, semester_results, subject_marks, attendance,
                         result_publications, now >>
    ELSE IF program \notin program_rows
    THEN /\ last' = Response("subject_bulk_add", "not_found", 0, 0)
         /\ UNCHANGED << fixed, current_semester, semester_results, subject_marks, attendance,
                         result_publications, now >>
    ELSE LET st == BulkAddLoop([table |-> subjects, subjects_added |-> 0, raised |-> FALSE],
                               program, rows)
         IN  /\ subjects' = st.table
             /\ last' = Response("subject_bulk_add",
                                 IF st.raised THEN "server_error" ELSE "success",
                                 st.subjects_added, 0)
             /\ UNCHANGED << program_rows, student_rows, is_active, update_fields_build, instance,
                             in_flight, current_semester, semester_results, subject_marks,
                             attendance, result_publications, now >>

----------------------------------------------------------------------------
\* students/views.py: student_delete (POST). student.user.delete() removes
\* the user and, by the cascades of the foreign keys, the Student row, its
\* SemesterResult rows with their SubjectMarks, and its Attendance rows.

student_delete(user, student) ==
    IF ~is_admin(user)
    THEN /\ last' = Response("student_delete", "login_redirect", 0, 0)
         /\ UNCHANGED << fixed, current_semester, semester_results, subject_marks, attendance,
                         result_publications, now >>
    ELSE IF student \notin student_rows
    THEN /\ last' = Response("student_delete", "not_found", 0, 0)
         /\ UNCHANGED << fixed, current_semester, semester_results, subject_marks, attendance,
                         result_publications, now >>
    ELSE /\ student_rows' = student_rows \ {student}
         /\ semester_results' = {r \in semester_results : r.student # student}
         /\ subject_marks' = {m \in subject_marks : m.student # student}
         /\ attendance' = {a \in attendance : a.student # student}
         /\ last' = Response("student_delete", "success", 0, 0)
         /\ UNCHANGED << program_rows, subjects, is_active, update_fields_build, instance,
                         in_flight, current_semester, result_publications, now >>

----------------------------------------------------------------------------
\* courses/views.py: program_delete (POST). program.delete() collects the rows
\* that reference the program: a Student (PROTECT) or a SubjectMarks of one of
\* its subjects (PROTECT) makes it raise ProtectedError, which the view turns
\* into an error message; otherwise the program is deleted with its Subject
\* rows, their Attendance rows and the ResultPublication rows of the program
\* (CASCADE).

ProgramProtected(program) ==
    \/ \E s \in student_rows : student_program(s) = program
    \/ \E m \in subject_marks : subject_program(m.subject) = program

program_delete(user, program) ==
    IF ~is_admin(user)
    THEN /\ last' = Response("program_delete", "login_redirect", 0, 0)
         /\ UNCHANGED << fixed, current_semester, semester_results, subject_marks, attendance,
                         result_publications, now >>
    ELSE IF program \notin program_rows
    THEN /\ last' = Response("program_delete", "not_found", 0, 0)
         /\ UNCHANGED << fixed, current_semester, semester_results, subject_marks, attendance,
                         result_publications, now >>
    ELSE IF ProgramProtected(program)
    THEN /\ last' = Response("program_delete", "error", 0, 0)
         /\ UNCHANGED << fixed, current_semester, semester_results, subject_marks, attendance,
                         result_publications, now >>
    ELSE LET kept == {c \in DOMAIN subjects : subject_program(c) # program}
         IN  /\ program_rows' = program_rows \ {program}
             /\ subjects' = [c \in kept |-> subjects[c]]
             /\ attendance' = {a \in attendance : a.subject \in kept}
             /\ result_publications' =
                    SelectSeq(result_publications, LAMBDA p : p.program # program)
             /\ last' = Response("program_delete", "success", 0, 0)
             /\ UNCHANGED << student_rows, is_active, update_fields_build, instance,
                             in_flight, current_semester, semester_results, subject_marks,
                             now >>

----------------------------------------------------------------------------
\* results/models.py: SubjectMarks.save called on an instance that was never
\* saved.

instance_save ==
    /\ instance.grade = ""
    /\ instance' = SubjectMarks_save(instance)
    /\ last' = Response("save", "saved", 0, 0)
    /\ UNCHANGED << program_rows, student_rows, subjects, current_semester, is_active,
                    semester_results, subject_marks, attendance, result_publications, now,
                    update_fields_build, in_flight >>

----------------------------------------------------------------------------
\* The system.

\* The instance held when no test of save() is under way.
NoInstance == NewSubjectMarks(NewSemesterResult("s1", 1, current_academic_year), "MCA101", 0, 0)

\* The third student is inactive: the rosters hold one student each.
Init ==
    /\ program_rows = Programs
    /\ student_rows = Students
    /\ subjects = Catalog
    /\ current_semester = [s \in Students |-> 1]
    /\ is_active = [s \in Students |-> s # "s3"]
    /\ semester_results = {}
    /\ subject_marks = {}
    /\ attendance = {}
    /\ result_publications = << >>
    /\ now = 1
    /\ in_flight = NoRequests
    /\ update_fields_build \in BOOLEAN
    /\ instance = NoInstance
    /\ last = Response("none", "none", 0, 0)

Publish(users, programs) ==
    \E user \in users, semester \in Semesters, program \in programs :
        publish_results(user, semester, current_academic_year, program)

Unpublish(users) ==
    \E user \in users, semester \in Semesters :
        unpublish_results(user, semester, current_academic_year)

MarksEntry(users, rows) ==
    \E user \in users, subject \in Subjects :
        \E payload \in [RosterSet(subject) -> rows] :
            teacher_marks_entry(user, subject, payload)

AttendanceEntry(users, rows) ==
    \E user \in users, subject \in Subjects :
        \E payload \in [RosterSet(subject) -> rows] :
            teacher_attendance_entry(user, subject, payload)

\* The students an admin promotes in the model.
Promotable == {"s1"}

Promote(users) ==
    \E user \in users, student \in Promotable : student_promote(user, student)

StudentDelete(users, deletable) ==
    \E user \in users, student \in deletable : student_delete(user, student)

ProgramDelete(users, deletable) ==
    \E user \in users, program \in deletable : program_delete(user, program)

\* The publication workflow: two students of two programs in one semester,
\* driven by the admin and the teachers of their subjects.
Next ==
    \/ Publish({"admin"}, Programs \cup {NoProgram})
    \/ Unpublish({"admin"})
    \/ MarksEntry({"t1", "t2"}, {MarksRow("absent", 0, 0), MarksRow("overflow", 0, 0)}
                                    \cup ValidMarksRows)

Spec == Init /\ [][Next]_vars

\* A student's history over two semesters: marks, publication of whole
\* semesters and promotion.
NextHistory ==
    \/ Publish({"admin"}, {NoProgram})
    \/ Unpublish({"admin"})
    \/ MarksEntry({"t1", "t2"}, {MarksRow("absent", 0, 0)} \cup ValidMarksRows)
    \/ Promote({"admin"})

SpecHistory == Init /\ [][NextHistory]_vars

\* Access control: every user sends every kind of request.
AccessMarksRows ==
    {MarksRow("absent", 0, 0), MarksRow("text", 0, 0), MarksRow("valid", 40, 50)}

AccessAttendanceRows == {AttendanceRow("absent", 0, 0), AttendanceRow("valid", 4, 3)}

NextAccess ==
    \/ Publish(Users, {NoProgram})
    \/ Unpublish(Users)
    \/ MarksEntry(Users, AccessMarksRows)
    \/ AttendanceEntry(Users, AccessAttendanceRows)

SpecAccess == Init /\ [][NextAccess]_vars

\* The grade calculator: save() on an instance with any marks, for a subject
\* with any max_marks.
MaxInternal == 12

MaxExternal == 12

MaxMaxMarks == 20

InitGrade ==
    /\ program_rows = Programs
    /\ student_rows = Students
    /\ \E max_marks \in 0..MaxMaxMarks :
           subjects = [Catalog EXCEPT !["MCA101"].max_marks = max_marks]
    /\ current_semester = [s \in Students |-> 1]
    /\ is_active = [s \in Students |-> s # "s3"]
    /\ semester_results = {}
    /\ subject_marks = {}
    /\ attendance = {}
    /\ result_publications = << >>
    /\ now = 1
    /\ in_flight = NoRequests
    /\ update_fields_build = FALSE
    /\ \E internal_marks \in 0..MaxInternal, external_marks \in 0..MaxExternal :
           instance = NewSubjectMarks(NewSemesterResult("s1", 1, current_academic_year),
                                      "MCA101", internal_marks, external_marks)
    /\ last = Response("none", "none", 0, 0)

NextGrade == instance_save

SpecGrade == InitGrade /\ [][NextGrade]_vars

\* The SGPA of a semester with two subjects: one student, the marks of two
\* subjects of one semester in four grades, publication, and an admin who
\* edits the credits of one of the subjects.
CatalogOneSemester == [Catalog EXCEPT !["MCA201"].semester = 1]

\* Marks of the 4-credit subject (grades A+ and B) and of the other subject
\* (grades A and F).
SgpaMarksRows101 ==
    { MarksRow("absent", 0, 0), MarksRow("valid", 40, 45), MarksRow("valid", 25, 30) }

SgpaMarksRows201 ==
    { MarksRow("absent", 0, 0), MarksRow("valid", 30, 40), MarksRow("valid", 10, 20) }

MarksEntryFor(users, subject, rows) ==
    \E user \in users, payload \in [RosterSet(subject) -> rows] :
        teacher_marks_entry(user, subject, payload)

SgpaCredits == {3, 0, -3}

SubjectEdit(users, codes, credits_set) ==
    \E user \in users, subject \in codes, credits \in credits_set :
        subject_edit(user, subject, credits, subject_max_marks(subject),
                     subject_passing_marks(subject))

InitSgpa ==
    /\ program_rows = Programs
    /\ student_rows = Students
    /\ subjects = CatalogOneSemester
    /\ current_semester = [s \in Students |-> 1]
    /\ is_active = [s \in Students |-> s = "s1"]
    /\ semester_results = {}
    /\ subject_marks = {}
    /\ attendance = {}
    /\ result_publications = << >>
    /\ now = 1
    /\ in_flight = NoRequests
    /\ update_fields_build \in BOOLEAN
    /\ instance = NoInstance
    /\ last = Response("none", "none", 0, 0)

NextSgpa ==
    \/ Publish({"admin"}, {NoProgram})
    \/ Unpublish({"admin"})
    \/ MarksEntryFor({"t1"}, "MCA101", SgpaMarksRows101)
    \/ MarksEntryFor({"t1"}, "MCA201", SgpaMarksRows201)
    \/ SubjectEdit({"admin"}, {"MCA201"}, SgpaCredits)

SpecSgpa == InitSgpa /\ [][NextSgpa]_vars

\* The grade calculator over every max_marks the column can hold around 0,
\* negative ones included.
MaxNegativeMaxMarks == 3

InitMonotone ==
    /\ program_rows = Programs
    /\ student_rows = Students
    /\ \E max_marks \in (0 - MaxNegativeMaxMarks)..MaxMaxMarks :
           subjects = [Catalog EXCEPT !["MCA101"].max_marks = max_marks]
    /\ current_semester = [s \in Students |-> 1]
    /\ is_active = [s \in Students |-> s # "s3"]
    /\ semester_results = {}
    /\ subject_marks = {}
    /\ attendance = {}
    /\ result_publications = << >>
    /\ now = 1
    /\ in_flight = NoRequests
    /\ update_fields_build = FALSE
    /\ \E internal_marks \in 0..MaxInternal, external_marks \in 0..MaxExternal :
           instance = NewSubjectMarks(NewSemesterResult("s1", 1, current_academic_year),
                                      "MCA101", internal_marks, external_marks)
    /\ last = Response("none", "none", 0, 0)

NextMonotone == instance_save

SpecMonotone == InitMonotone /\ [][NextMonotone]_vars

\* Attendance entry by the teachers of the subjects: rows without classes,
\* with fewer and with more classes attended than held.
AttendanceEntryRows ==
    { AttendanceRow("absent", 0, 0), AttendanceRow("text", 0, 0),
      AttendanceRow("valid", 4, 3), AttendanceRow("valid", 0, 0),
      AttendanceRow("valid", 3, 1), AttendanceRow("valid", 2, 3) }

NextAttendance == AttendanceEntry({"t1", "t2"}, AttendanceEntryRows)

SpecAttendance == Init /\ [][NextAttendance]_vars

\* The attendance status: one stored record of s1 with any percentage of a
\* range around the two thresholds (attended out of 10000 classes), and the
\* read of its status.
MinStatusPercentage == 5990

MaxStatusPercentage == 7510

StatusClasses == 10000

InitStatus ==
    /\ program_rows = Programs
    /\ student_rows = Students
    /\ subjects = Catalog
    /\ current_semester = [s \in Students |-> 1]
    /\ is_active = [s \in Students |-> s # "s3"]
    /\ semester_results = {}
    /\ subject_marks = {}
    /\ \E attended_classes \in MinStatusPercentage..MaxStatusPercentage :
           attendance = {Attendance_save(NewAttendance("s1", "MCA101", StatusClasses,
                                                       attended_classes))}
    /\ result_publications = << >>
    /\ now = 1
    /\ in_flight = NoRequests
    /\ update_fields_build = FALSE
    /\ instance = NoInstance
    /\ last = Response("none", "none", 0, 0)

\* att.status of the records of the student's current semester, as
\* get_student_performance_data reports it.
read_attendance_status(student) ==
    /\ last.op = "none"
    /\ \E a \in attendance :
           /\ a.student = student
           /\ a.semester = current_semester[student]
           /\ last' = Response("attendance_status", Attendance_status(a), 0, 0)
    /\ UNCHANGED << fixed, current_semester, semester_results, subject_marks, attendance,
                    result_publications, now >>

NextStatus == read_attendance_status("s1")

SpecStatus == InitStatus /\ [][NextStatus]_vars

\* Bulk marks entry for a roster of two students, with rows of every kind.
InitBulk ==
    /\ program_rows = Programs
    /\ student_rows = Students
    /\ subjects = Catalog
    /\ current_semester = [s \in Students |-> 1]
    /\ is_active = [s \in Students |-> TRUE]
    /\ semester_results = {}
    /\ subject_marks = {}
    /\ attendance = {}
    /\ result_publications = << >>
    /\ now = 1
    /\ in_flight = NoRequests
    /\ update_fields_build \in BOOLEAN
    /\ instance = NoInstance
    /\ last = Response("none", "none", 0, 0)

NextBulk == MarksEntryFor({"t1"}, "MCA101", MarksRows)

SpecBulk == InitBulk /\ [][NextBulk]_vars

\* The pass mark: save() on an instance with any marks, for a subject of 100
\* marks with any passing_marks of a range around 35.
MinPassingMarks == 33

MaxPassingMarks == 40

MaxInternalPass == 20

MaxExternalPass == 25

InitPass ==
    /\ program_rows = Programs
    /\ student_rows = Students
    /\ \E passing_marks \in MinPassingMarks..MaxPassingMarks :
           subjects = [Catalog EXCEPT !["MCA101"].passing_marks = passing_marks]
    /\ current_semester = [s \in Students |-> 1]
    /\ is_active = [s \in Students |-> s # "s3"]
    /\ semester_results = {}
    /\ subject_marks = {}
    /\ attendance = {}
    /\ result_publications = << >>
    /\ now = 1
    /\ in_flight = NoRequests
    /\ update_fields_build = FALSE
    /\ \E internal_marks \in 0..MaxInternalPass, external_marks \in 0..MaxExternalPass :
           instance = NewSubjectMarks(NewSemesterResult("s1", 1, current_academic_year),
                                      "MCA101", internal_marks, external_marks)
    /\ last = Response("none", "none", 0, 0)

NextPass == instance_save

SpecPass == InitPass /\ [][NextPass]_vars

\* Catalog administration: an admin adds subjects of the first program, one
\* by one and in bulk, and edits them, with semesters within and beyond the
\* program's and with marks of every order.
NewSubjectCodes == {"MCA102", "MCA103"}

CatalogSemesters == {1, 3}

CatalogMaxMarks == {0, 50, 100}

CatalogPassingMarks == {40, 50}

SubjectAdd(users, codes) ==
    \E user \in users, code \in codes, semester \in CatalogSemesters,
       max_marks \in CatalogMaxMarks, passing_marks \in CatalogPassingMarks :
        subject_add(user, code, "MCA", semester, 3, max_marks, passing_marks)

SubjectEditMarks(users, codes, max_marks_set, passing_marks_set) ==
    \E user \in users, subject \in codes, max_marks \in max_marks_set,
       passing_marks \in passing_marks_set :
        /\ subject \in DOMAIN subjects
        /\ subject_edit(user, subject, subject_credits(subject), max_marks, passing_marks)

BulkRows(codes) ==
    {BulkRow(FALSE, code, semester, 3, max_marks, passing_marks) :
        code \in codes, semester \in CatalogSemesters, max_marks \in CatalogMaxMarks,
        passing_marks \in CatalogPassingMarks}
        \cup {BulkRow(TRUE, "", 0, 0, 100, 40)}

SubjectBulkAdd(users, codes) ==
    \E user \in users, row1 \in BulkRows(codes), row2 \in BulkRows(codes) :
        subject_bulk_add(user, "MCA", << row1, row2 >>)

NextCatalog ==
    \/ SubjectAdd({"admin"}, NewSubjectCodes)
    \/ SubjectEditMarks({"admin"}, NewSubjectCodes, CatalogMaxMarks, CatalogPassingMarks)
    \/ SubjectBulkAdd({"admin"}, NewSubjectCodes)

SpecCatalog == Init /\ [][NextCatalog]_vars

\* Marks of a subject whose max_marks and passing_marks an admin edits after
\* the marks were entered.
EditedMaxMarks == {100, 50}

EditedPassingMarks == {40, 20}

NextStale ==
    \/ MarksEntryFor({"t1"}, "MCA101", {MarksRow("absent", 0, 0)} \cup ValidMarksRows)
    \/ SubjectEditMarks({"admin"}, {"MCA101"}, EditedMaxMarks, EditedPassingMarks)

SpecStale == InitBulk /\ [][NextStale]_vars

\* A publish that fails part-way: two students of one semester with two
\* subjects, the first of 10 credits; an admin sets the credits of the second
\* to -9, so that the sgpa of a student with the top grade in the first
\* subject and a fail in the second is 100.00.
CatalogPartial == [CatalogOneSemester EXCEPT !["MCA101"].credits = 10]

PartialMarksRows101 == { MarksRow("absent", 0, 0), MarksRow("valid", 40, 50) }

PartialMarksRows201 == { MarksRow("absent", 0, 0), MarksRow("valid", 10, 20) }

InitPartial ==
    /\ program_rows = Programs
    /\ student_rows = Students
    /\ subjects = CatalogPartial
    /\ current_semester = [s \in Students |-> 1]
    /\ is_active = [s \in Students |-> TRUE]
    /\ semester_results = {}
    /\ subject_marks = {}
    /\ attendance = {}
    /\ result_publications = << >>
    /\ now = 1
    /\ in_flight = NoRequests
    /\ update_fields_build \in BOOLEAN
    /\ instance = NoInstance
    /\ last = Response("none", "none", 0, 0)

NextPartial ==
    \/ Publish({"admin"}, {NoProgram})
    \/ Unpublish({"admin"})
    \/ MarksEntryFor({"t1"}, "MCA101", PartialMarksRows101)
    \/ MarksEntryFor({"t1"}, "MCA201", PartialMarksRows201)
    \/ SubjectEdit({"admin"}, {"MCA201"}, {-9})

SpecPartial == InitPartial /\ [][NextPartial]_vars

\* Two workers that handle publish requests of the admin for the first
\* semester at the same time, while the teacher enters marks for a roster of
\* two students.
RaceMarksRows == { MarksRow("absent", 0, 0), MarksRow("valid", 40, 50) }

PublishBegin(users, semesters, scope_programs) ==
    \E w \in Workers, user \in users, semester \in semesters, program \in scope_programs :
        publish_begin(w, user, semester, current_academic_year, program)

PublishFetch == \E w \in Workers : publish_fetch(w)

PublishCalc == \E w \in Workers : publish_calc(w)

PublishSave == \E w \in Workers : publish_save(w)

PublishCreate == \E w \in Workers : publish_create(w)

NextRace ==
    \/ MarksEntryFor({"t1"}, "MCA101", RaceMarksRows)
    \/ PublishBegin({"admin"}, {1}, {NoProgram})
    \/ PublishFetch
    \/ PublishCalc
    \/ PublishSave
    \/ PublishCreate

SpecRace == InitBulk /\ [][NextRace]_vars

\* The audit trail under administration: marks, attendance, publication, an
\* admin who edits a subject, removes the student of the second program and
\* deletes programs.
AuditMarksRows == {MarksRow("valid", 40, 50)}

AuditAttendanceRows == {AttendanceRow("valid", 4, 3)}

NextAudit ==
    \/ Publish({"admin"}, Programs \cup {NoProgram})
    \/ Unpublish({"admin"})
    \/ MarksEntry({"t1", "t2"}, AuditMarksRows)
    \/ AttendanceEntry({"t1", "t2"}, AuditAttendanceRows)
    \/ SubjectEdit({"admin"}, {"MCA101"}, {3})
    \/ StudentDelete({"admin"}, {"s2"})
    \/ ProgramDelete({"admin"}, Programs)

SpecAudit == Init /\ [][NextAudit]_vars

----------------------------------------------------------------------------
\* Properties.

\* The marks held by the results that are not published.
UnpublishedMarks ==
    {m \in subject_marks : \E r \in semester_results :
                               ~r.is_published /\ m \in MarksOf(subject_marks, r)}

\* The subject_marks table with the marks of the unpublished results removed,
\* raised to the top grade, or lowered to a fail.
UnpublishedMarksVariants ==
    LET kept == subject_marks \ UnpublishedMarks
    IN  { kept,
          kept \cup {[m EXCEPT !.internal_marks = 50, !.external_marks = 50,
                               !.total_marks = 100, !.grade = "O", !.grade_point = 100,
                               !.is_passed = TRUE] : m \in UnpublishedMarks},
          kept \cup {[m EXCEPT !.internal_marks = 0, !.external_marks = 0,
                               !.total_marks = 0, !.grade = "F", !.grade_point = 0,
                               !.is_passed = FALSE] : m \in UnpublishedMarks} }

\* C1: calculate_cgpa(student) depends only on the marks of the student's
\* published results: removing the unpublished results, or removing or
\* changing their marks, never changes its value.
C1_CgpaExcludesUnpublished ==
    \A student \in Students :
        /\ \A marks \in UnpublishedMarksVariants :
               calculate_cgpa(semester_results, marks, student)
                   = calculate_cgpa(semester_results, subject_marks, student)
        /\ calculate_cgpa({r \in semester_results : r.is_published}, subject_marks, student)
               = calculate_cgpa(semester_results, subject_marks, student)

\* A student with a published result that holds a failed mark and an
\* unpublished result that holds a mark with a non-zero grade point.
C1_Witness ==
    \E r1, r2 \in semester_results :
        /\ r1.student = r2.student
        /\ r1.is_published
        /\ ~r2.is_published
        /\ \E m \in MarksOf(subject_marks, r1) : m.grade_point = 0
        /\ \E m \in MarksOf(subject_marks, r2) : m.grade_point > 0
        /\ calculate_cgpa(semester_results, subject_marks, r1.student) = 0

\* C6: what a student is shown (results list, semester detail, performance
\* data) is the same whatever the marks of the unpublished results are.
C6_StudentViewsPublishedOnly ==
    \A student \in Students, marks \in UnpublishedMarksVariants :
        /\ student_view_results(semester_results, marks, student)
               = student_view_results(semester_results, subject_marks, student)
        /\ \A semester \in Semesters :
               student_semester_detail(semester_results, marks, student, semester)
                   = student_semester_detail(semester_results, subject_marks, student,
                                             semester)
        /\ get_student_performance_data(semester_results, marks, student)
               = get_student_performance_data(semester_results, subject_marks, student)

\* A student who is shown a published semester while the current semester's
\* result, with marks, is unpublished.
C6_Witness ==
    \E r1, r2 \in semester_results :
        /\ r1.student = r2.student
        /\ r1.is_published /\ MarksOf(subject_marks, r1) # {}
        /\ ~r2.is_published /\ MarksOf(subject_marks, r2) # {}
        /\ r2.semester = current_semester[r2.student]
        /\ student_semester_detail(semester_results, subject_marks, r1.student,
                                   r2.semester).status = 404
        /\ student_semester_detail(semester_results, subject_marks, r1.student,
                                   r1.semester).status = 200

\* Σ(grade_point × credits) / Σ(credits) over a set of marks, in hundredths,
\* rounded to 2 decimal places.
SgpaOf(ms) ==
    RoundHalfEven(10 * SumFn([m \in ms |-> m.grade_point * subject_credits(m.subject)], ms),
                  SumFn([m \in ms |-> subject_credits(m.subject)], ms))

SameKey(r1, r2) ==
    /\ r1.student = r2.student
    /\ r1.semester = r2.semester
    /\ r1.academic_year = r2.academic_year

\* The result r matches the scope (semester, academic_year, optional program).
InScope(r, semester, academic_year, program) ==
    /\ r.semester = semester
    /\ r.academic_year = academic_year
    /\ (program = NoProgram \/ student_program(r.student) = program)

PublishScopes == Semesters \X (Programs \cup {NoProgram})

\* C2: a successful publish for a scope changes exactly the unpublished results
\* of the scope: each ends published, with a published_date and the SGPA of
\* its marks (null when it has none); every other result, every mark and
\* every attendance record is left as it was.
C2_PublishChangesExactlyScope ==
    [][\A sc \in PublishScopes :
          (/\ publish_results("admin", sc[1], current_academic_year, sc[2])
           /\ last'.status = "success")
          => /\ \A r \in semester_results :
                    IF InScope(r, sc[1], current_academic_year, sc[2]) /\ ~r.is_published
                    THEN \E p \in semester_results' :
                             /\ SameKey(p, r)
                             /\ p.is_published
                             /\ p.published_date # << >>
                             /\ p.sgpa = IF MarksOf(subject_marks, r) = {} THEN << >>
                                         ELSE << SgpaOf(MarksOf(subject_marks, r)) >>
                    ELSE r \in semester_results'
             /\ Cardinality(semester_results') = Cardinality(semester_results)
             /\ subject_marks' = subject_marks
             /\ attendance' = attendance]_vars

\* A publish has just published one result with marks while another result of
\* the same semester and year, published earlier, kept its earlier date.
C2_Witness ==
    /\ last.op = "publish" /\ last.status = "success"
    /\ \E r1, r2 \in semester_results :
           /\ r1.semester = r2.semester /\ r1.academic_year = r2.academic_year
           /\ r1.published_date = << now - 1 >>
           /\ r1.sgpa # << >>
           /\ r2.is_published
           /\ r2.published_date # << >>
           /\ r2.published_date[1] < now - 1

\* C3: a publish whose scope matches no unpublished result reports a warning,
\* writes no ResultPublication and changes no row; so does a publish that
\* repeats, with nothing in between, the scope of a publish that succeeded.
C3_EmptySelectionWarning ==
    [][\A sc \in PublishScopes :
          /\ (/\ publish_results("admin", sc[1], current_academic_year, sc[2])
              /\ ~ \E r \in semester_results :
                       InScope(r, sc[1], current_academic_year, sc[2]) /\ ~r.is_published)
             => /\ last'.status = "warning"
                /\ UNCHANGED << semester_results, subject_marks, attendance,
                                result_publications >>
          /\ (/\ last.op = "publish" /\ last.status = "success"
              /\ result_publications # << >>
              /\ result_publications[Len(result_publications)].semester = sc[1]
              /\ result_publications[Len(result_publications)].program = sc[2]
              /\ publish_results("admin", sc[1], current_academic_year, sc[2]))
             => /\ last'.status = "warning"
                /\ UNCHANGED << semester_results, subject_marks, attendance,
                                result_publications >>]_vars

\* A publish has answered with the warning although results exist and a
\* publication is on record.
C3_Witness ==
    /\ last.op = "publish" /\ last.status = "warning"
    /\ Len(result_publications) = 1
    /\ semester_results # {}
    /\ \A r \in semester_results : r.is_published

\* C4: a publish with a non-empty selection appends exactly one
\* ResultPublication, and its total_students is the number of results the
\* action switched from unpublished to published, all selected ones included.
C4_OneAuditRecordWithCount ==
    [][\A sc \in PublishScopes :
          (/\ publish_results("admin", sc[1], current_academic_year, sc[2])
           /\ \E r \in semester_results :
                  InScope(r, sc[1], current_academic_year, sc[2]) /\ ~r.is_published)
          => /\ Len(result_publications') = Len(result_publications) + 1
             /\ SubSeq(result_publications', 1, Len(result_publications))
                    = result_publications
             /\ result_publications'[Len(result_publications')].total_students
                    = Cardinality({r \in semester_results :
                                      /\ ~r.is_published
                                      /\ \E p \in semester_results' :
                                             SameKey(p, r) /\ p.is_published})
             /\ \A r \in semester_results :
                    InScope(r, sc[1], current_academic_year, sc[2])
                        => \E p \in semester_results' : SameKey(p, r) /\ p.is_published]_vars

\* A publish has just published two results and recorded the count 2, after an
\* earlier publication.
C4_Witness ==
    /\ last.op = "publish" /\ last.status = "success"
    /\ Len(result_publications) = 2
    /\ result_publications[2].total_students = 2
    /\ Cardinality({r \in semester_results : r.published_date = << now - 1 >>}) = 2

\* C5: an unpublish for (semester, academic_year) clears is_published and
\* published_date of the published results of that semester and year, in
\* every program, and changes nothing else: no other column, no other result,
\* no mark, no attendance record and no ResultPublication.
C5_UnpublishFrame ==
    [][\A semester \in Semesters :
          unpublish_results("admin", semester, current_academic_year)
          => /\ \A r \in semester_results :
                    IF /\ r.semester = semester
                       /\ r.academic_year = current_academic_year
                       /\ r.is_published
                    THEN [r EXCEPT !.is_published = FALSE, !.published_date = << >>]
                             \in semester_results'
                    ELSE r \in semester_results'
             /\ Cardinality(semester_results') = Cardinality(semester_results)
             /\ UNCHANGED << subject_marks, attendance, result_publications >>]_vars

\* An unpublish has just withdrawn the results of two programs, which keep
\* their sgpa, while a published result of another semester stays published.
C5_Witness ==
    /\ last.op = "unpublish" /\ last.status = "success" /\ last.success_count = 2
    /\ result_publications # << >>
    /\ \E r1, r2, r3 \in semester_results :
           /\ student_program(r1.student) # student_program(r2.student)
           /\ r1.semester = r2.semester
           /\ ~r1.is_published /\ r1.published_date = << >> /\ r1.sgpa # << >>
           /\ ~r2.is_published /\ r2.published_date = << >> /\ r2.sgpa # << >>
           /\ r3.semester # r1.semester /\ r3.is_published

C8_UnassignedTeacherRefused ==
    [][\A user \in Users, subject \in Subjects :
          (role(user) = "teacher" /\ subject \notin teacher_subjects(user)) =>
              /\ \A payload \in [RosterSet(subject) -> AccessMarksRows] :
                     teacher_marks_entry(user, subject, payload)
                     => UNCHANGED << semester_results, subject_marks, attendance >>
              /\ \A payload \in [RosterSet(subject) -> AccessAttendanceRows] :
                     teacher_attendance_entry(user, subject, payload)
                     => UNCHANGED << semester_results, subject_marks, attendance >>]_vars

\* A submission has been refused with the error message while the tables hold
\* rows that the assigned teachers entered.
C8_Witness ==
    /\ last.op \in {"marks_entry", "attendance_entry"} /\ last.status = "error"
    /\ subject_marks # {}
    /\ attendance # {}

GradeBands ==
    { << 90, "O", 100 >>, << 80, "A+", 90 >>, << 70, "A", 80 >>, << 60, "B+", 70 >>,
      << 50, "B", 60 >>, << 45, "C", 50 >>, << 40, "P", 40 >> }

\* The bands that total_marks out of max_marks reaches.
BandsReached(total_marks, max_marks) ==
    {b \in GradeBands : 100 * total_marks >= b[1] * max_marks}

\* C10: the grade calculator gives ('F', 0.0) when max_marks is 0; otherwise
\* it gives the pair of the highest band that total_marks / max_marks * 100
\* reaches (90 O 10.0, 80 A+ 9.0, 70 A 8.0, 60 B+ 7.0, 50 B 6.0, 45 C 5.0,
\* 40 P 4.0) and ('F', 0.0) when it reaches none, for every total_marks >= 0
\* and every max_marks of the range.
C10_GradeBands ==
    instance.grade # "" =>
        LET max_marks == subject_max_marks(instance.subject)
            reached   == BandsReached(instance.total_marks, max_marks)
        IN  IF max_marks = 0 \/ reached = {}
            THEN instance.grade = "F" /\ instance.grade_point = 0
            ELSE \E b \in reached :
                     /\ \A c \in reached : c[1] <= b[1]
                     /\ instance.grade = b[2]
                     /\ instance.grade_point = b[3]

\* A save has graded 9 marks out of 20, exactly 45 percent, as C.
C10_Witness ==
    /\ last.op = "save"
    /\ subject_max_marks(instance.subject) = 20
    /\ instance.total_marks = 9
    /\ instance.grade = "C"
    /\ instance.grade_point = 50

\* C11: a save sets is_passed to (total_marks >= passing_marks) of the
\* subject, whatever the grade is; a record can be passed with grade F.
C11_PassIndependentOfGrade ==
    instance.grade # "" =>
        instance.is_passed
            = (instance.internal_marks + instance.external_marks
                   >= subject_passing_marks(instance.subject))

\* A save has given 38 marks out of 100, with passing_marks 35, the grade F
\* and is_passed True.
C11_Witness ==
    /\ last.op = "save"
    /\ subject_max_marks(instance.subject) = 100
    /\ subject_passing_marks(instance.subject) = 35
    /\ instance.total_marks = 38
    /\ instance.grade = "F"
    /\ instance.is_passed

Abs(x) == IF x < 0 THEN -x ELSE x

\* v hundredths is num / den rounded to 2 decimal places: no hundredth is
\* nearer to the quotient.
IsRounded(v, num, den) == 2 * Abs(v * den - 100 * num) <= Abs(den)

\* Σ credits of the subjects of a set of marks.
CreditsOf(ms) == SumFn([m \in ms |-> subject_credits(m.subject)], ms)

\* Σ(grade_point × credits) of a set of marks, grade points in tenths.
WeightedPointsOf(ms) ==
    SumFn([m \in ms |-> m.grade_point * subject_credits(m.subject)], ms)

\* C12: calculate_sgpa(result) returns Σ(grade_point × credits) / Σ(credits)
\* over the marks of the result, rounded to 2 decimal places, and 0.00 when
\* the result has no marks or the credits sum to 0.
C12_SgpaFormula ==
    \A r \in semester_results :
        LET ms == MarksOf(subject_marks, r)
            v  == calculate_sgpa_value(subject_marks, r)
        IN  IF ms = {} \/ CreditsOf(ms) = 0 THEN v = 0
            ELSE \* grade points in tenths: the quotient is WeightedPointsOf / (10 × credits)
                 IsRounded(v, WeightedPointsOf(ms), 10 * CreditsOf(ms))

\* A published result with grade point 8.0 on 3 credits and 6.0 on 4 credits,
\* for which 6.86 is returned and stored.
C12_Witness ==
    \E r \in semester_results :
        /\ r.is_published
        /\ {<< subject_credits(m.subject), m.grade_point >> : m \in MarksOf(subject_marks, r)}
               = {<< 3, 80 >>, << 4, 60 >>}
        /\ calculate_sgpa_value(subject_marks, r) = 686
        /\ r.sgpa = << 686 >>

\* C13: after a call of calculate_sgpa(result) the stored total_credits of
\* the result is the sum of the credits of the subjects of its marks, and the
\* stored credits_earned is the sum over the marks with is_passed = True.
\* (publish_results calls calculate_sgpa on every result it selects.)
C13_SgpaSideEffects ==
    [][\A sc \in PublishScopes :
          (/\ publish_results("admin", sc[1], current_academic_year, sc[2])
           /\ last'.status = "success")
          => \A r \in semester_results :
                 (InScope(r, sc[1], current_academic_year, sc[2]) /\ ~r.is_published)
                 => \E p \in semester_results' :
                        /\ SameKey(p, r)
                        /\ p.total_credits = CreditsOf(MarksOf(subject_marks, r))
                        /\ p.credits_earned
                               = CreditsOf({m \in MarksOf(subject_marks, r) : m.is_passed})]_vars

\* The marks, as they are stored now, of the published results of a student.
CurrentPublishedMarks(student) ==
    {m \in subject_marks :
        /\ m.student = student
        /\ \E r \in semester_results :
               /\ r.is_published
               /\ r.student = m.student
               /\ r.semester = m.semester
               /\ r.academic_year = m.academic_year}

\* C14: in every state, also after a marks entry has changed the marks of a
\* published result, calculate_cgpa(student) is
\* Σ(grade_point × credits) / Σ(credits) over the marks now stored for the
\* published results of the student, rounded to 2 decimal places (0.00
\* without credits); the stored sgpa values play no part.
C14_CgpaFromCurrentMarks ==
    \A student \in Students :
        LET ms == CurrentPublishedMarks(student)
            v  == calculate_cgpa(semester_results, subject_marks, student)
        IN  IF CreditsOf(ms) = 0 THEN v = 0
            ELSE IsRounded(v, WeightedPointsOf(ms), 10 * CreditsOf(ms))

\* A marks entry has just raised the marks of a result that was published
\* with sgpa 0.00: the CGPA follows the marks, the stored sgpa does not.
C14_Witness ==
    /\ last.op = "marks_entry" /\ last.status = "saved" /\ last.success_count = 1
    /\ \E r \in semester_results :
           /\ r.is_published
           /\ r.sgpa = << 0 >>
           /\ \A q \in semester_results : q.student = r.student => q = r
           /\ \E m \in MarksOf(subject_marks, r) : m.grade_point = 100
           /\ calculate_cgpa(semester_results, subject_marks, r.student) = 1000

\* C15: against one subject, a lower total never gets a higher grade point:
\* for all totals 0 <= t1 < t2, grade_point(t1) <= grade_point(t2).
C15_GradePointMonotone ==
    instance.grade # "" =>
        \A t1 \in 0..(instance.total_marks - 1) :
            calculate_grade(t1, subject_max_marks(instance.subject))[2]
                <= instance.grade_point

\* A save has graded 18 out of 20 with 10.0, one mark above a total that gets
\* 9.0 and far above totals that get 0.0.
C15_Witness ==
    /\ last.op = "save"
    /\ subject_max_marks(instance.subject) = 20
    /\ instance.total_marks = 18
    /\ instance.grade_point = 100
    /\ calculate_grade(17, 20)[2] = 90
    /\ calculate_grade(7, 20)[2] = 0

\* C16: the SGPA that calculate_sgpa stores on a result with marks, all of
\* them with grade points in [0, 10], lies in [0, 10].
C16_SgpaBound ==
    \A r \in semester_results :
        (/\ MarksOf(subject_marks, r) # {}
         /\ \A m \in MarksOf(subject_marks, r) : m.grade_point \in 0..100
         /\ r.sgpa # << >>)
        => r.sgpa[1] \in 0..1000

\* C17: the stored percentage of an Attendance record is 0 when its
\* total_classes is 0, and attended_classes / total_classes * 100 rounded to
\* 2 decimal places otherwise.
C17_AttendancePercentage ==
    \A a \in attendance :
        IF a.total_classes = 0 THEN a.percentage = 0
        ELSE IsRounded(a.percentage, 100 * a.attended_classes, a.total_classes)

\* C18: the status of an attendance record is Good exactly when its
\* percentage is at least 75, Average exactly when it is at least 60 and
\* below 75, and Poor otherwise.
C18_AttendanceStatus ==
    last.op = "attendance_status" =>
        \A a \in attendance :
            /\ (last.status = "Good") <=> (a.percentage >= 7500)
            /\ (last.status = "Average") <=> (a.percentage >= 6000 /\ a.percentage < 7500)
            /\ (last.status = "Poor") <=> (a.percentage < 6000)

\* The status of a record with 74.99 percent has been read as Average.
C18_Witness ==
    /\ last.op = "attendance_status"
    /\ last.status = "Average"
    /\ \E a \in attendance : a.percentage = 7499

\* C19: after any sequence of attendance submissions every stored Attendance
\* record has attended_classes <= total_classes.
C19_AttendedWithinTotal ==
    \A a \in attendance : a.attended_classes <= a.total_classes

\* The SubjectMarks rows of one student in one subject.
MarksOfStudent(marks, student, subject) ==
    {m \in marks : m.student = student /\ m.subject = subject}

\* C20: in a bulk marks entry every student of the roster whose row has both
\* fields is handled once, whatever happened to the rows before: a row of two
\* non-negative integers that the database accepts is stored and counted in
\* success_count, any other is counted in error_count and leaves the marks of
\* the student as they were; nothing is counted twice or retried, and a row
\* without both fields is not counted.
C20_BulkEntryTallies ==
    [][\A payload \in [RosterSet("MCA101") -> MarksRows] :
          teacher_marks_entry("t1", "MCA101", payload)
          => /\ \A student \in RosterSet("MCA101") :
                    IF payload[student].kind = "valid"
                    THEN \E m \in subject_marks' :
                             /\ MarksOfStudent(subject_marks', student, "MCA101") = {m}
                             /\ m.internal_marks = payload[student].internal_marks
                             /\ m.external_marks = payload[student].external_marks
                    ELSE MarksOfStudent(subject_marks', student, "MCA101")
                             = MarksOfStudent(subject_marks, student, "MCA101")
             /\ last'.success_count
                    = Cardinality({st \in RosterSet("MCA101") : payload[st].kind = "valid"})
             /\ last'.error_count
                    = Cardinality({st \in RosterSet("MCA101") :
                                      payload[st].kind \notin {"valid", "absent"}})]_vars

\* A bulk entry in which the row of the first student of the roster failed
\* and the row of the second one was stored.
C20_Witness ==
    /\ last.op = "marks_entry" /\ last.success_count = 1 /\ last.error_count = 1
    /\ Roster("MCA101") = << "s1", "s3" >>
    /\ MarksOfStudent(subject_marks, "s1", "MCA101") = {}
    /\ MarksOfStudent(subject_marks, "s3", "MCA101") # {}

\* C21: ResultPublication rows are append-only: no step of publish,
\* unpublish, marks entry, attendance entry or catalog administration deletes
\* a row or changes a field of a row that exists.
C21_PublicationsAppendOnly ==
    [][/\ Len(result_publications') >= Len(result_publications)
       /\ SubSeq(result_publications', 1, Len(result_publications))
              = result_publications]_vars

\* C22: after any sequence of bulk marks submissions there is at most one
\* SemesterResult per (student, semester, academic_year) and at most one
\* SubjectMarks per (semester_result, subject): a resubmission updates the
\* rows that exist.
C22_UniqueRecords ==
    /\ \A r1, r2 \in semester_results : SameKey(r1, r2) => r1 = r2
    /\ \A m1, m2 \in subject_marks :
           (SameKey(m1, m2) /\ m1.subject = m2.subject) => m1 = m2

\* A row that was created with 40 + 50 marks and resubmitted with 10 + 20
\* (its total is still the one of the first submission) is the only row of
\* its student, as is the student's SemesterResult.
C22_Witness ==
    /\ last.op = "marks_entry"
    /\ \E m \in subject_marks :
           /\ m.internal_marks = 10 /\ m.external_marks = 20 /\ m.total_marks = 90
           /\ MarksOfStudent(subject_marks, m.student, m.subject) = {m}
           /\ Cardinality({r \in semester_results : r.student = m.student}) = 1

\* C23: every Subject row that subject_add, subject_edit or subject_bulk_add
\* stores has passing_marks < max_marks and a semester within the
\* total_semesters of its program.
C23_SubjectInvariant ==
    \A c \in DOMAIN subjects :
        /\ subject_passing_marks(c) < subject_max_marks(c)
        /\ subject_semester(c) <= total_semesters(subject_program(c))

\* C24: in every state reached by marks entries and subject edits, the grade
\* and grade_point of each SubjectMarks row are the grade calculator's result
\* for its total_marks and the max_marks its subject has now, and its
\* is_passed is (total_marks >= the passing_marks its subject has now).
C24_DerivedFieldsFresh ==
    \A m \in subject_marks :
        /\ << m.grade, m.grade_point >>
               = calculate_grade(m.total_marks, subject_max_marks(m.subject))
        /\ m.is_passed = (m.total_marks >= subject_passing_marks(m.subject))

\* The result r has been published with the SGPA of its marks (its stored
\* one when it has no marks or their credits sum to 0).
PublishedWithSgpa(r) ==
    LET ms == MarksOf(subject_marks, r)
    IN  \E p \in semester_results' :
            /\ SameKey(p, r)
            /\ p.is_published
            /\ p.published_date # << >>
            /\ p.sgpa = IF ms = {} \/ CreditsOf(ms) = 0 THEN r.sgpa ELSE << SgpaOf(ms) >>

\* C26: publish is not atomic: when it fails at the k-th selected result
\* (the save of its SGPA raises), the results before it stay published with
\* their recomputed SGPA, the k-th and those after it stay as they were,
\* unpublished, and no ResultPublication is written.
C26_PublishNotAtomic ==
    [][\A sc \in PublishScopes :
          (/\ publish_results("admin", sc[1], current_academic_year, sc[2])
           /\ last'.status = "server_error")
          => LET selected == InOrder({r \in semester_results :
                                        /\ InScope(r, sc[1], current_academic_year, sc[2])
                                        /\ ~r.is_published})
             IN  /\ \E k \in 1..Len(selected) :
                        /\ MarksOf(subject_marks, selected[k]) # {}
                        /\ ~SgpaFits(SgpaOf(MarksOf(subject_marks, selected[k])))
                        /\ \A i \in 1..(k - 1) : PublishedWithSgpa(selected[i])
                        /\ \A i \in k..Len(selected) : selected[i] \in semester_results'
                        /\ last'.success_count = k - 1
                 /\ Cardinality(semester_results') = Cardinality(semester_results)
                 /\ UNCHANGED << result_publications, subject_marks >>]_vars

\* A publish has failed at the second of two selected results: the first is
\* published with its sgpa, the second is not, and no publication is on record.
C26_Witness ==
    /\ last.op = "publish" /\ last.status = "server_error" /\ last.success_count = 1
    /\ result_publications = << >>
    /\ \E r1, r2 \in semester_results :
           /\ r1.semester = r2.semester
           /\ r1.is_published /\ r1.published_date = << now - 1 >> /\ r1.sgpa # << >>
           /\ ~r2.is_published /\ r2.published_date = << >>
           /\ ~SgpaFits(SgpaOf(MarksOf(subject_marks, r2)))

\* C25: the publication state has no terminal state: an admin publish whose
\* scope matches an unpublished result leaves it published, and an admin
\* unpublish for the semester and academic year of a published result leaves
\* it unpublished, from every reachable state and however often the cycle
\* has been run.
C25_PublishCycle ==
    [][/\ \A sc \in PublishScopes :
              publish_results("admin", sc[1], current_academic_year, sc[2])
              => \A r \in semester_results :
                     InScope(r, sc[1], current_academic_year, sc[2])
                     => \E p \in semester_results' : SameKey(p, r) /\ p.is_published
       /\ \A semester \in Semesters :
              unpublish_results("admin", semester, current_academic_year)
              => \A r \in semester_results :
                     (r.semester = semester /\ r.academic_year = current_academic_year)
                     => \E p \in semester_results' : SameKey(p, r) /\ ~p.is_published]_vars

\* The keys of the results a publish request fetched.
FetchedKeys(req) ==
    {<< req.results[i].student, req.results[i].semester, req.results[i].academic_year >> :
        i \in 1..Len(req.results)}

\* The two workers have each finished a publish request of the same scope
\* that fetched the same, unpublished, results.
BothPublishedTheSame ==
    /\ \A w \in Workers : in_flight[w].pc = "done"
    /\ in_flight[1].semester = in_flight[2].semester
    /\ in_flight[1].academic_year = in_flight[2].academic_year
    /\ in_flight[1].program = in_flight[2].program
    /\ FetchedKeys(in_flight[1]) # {}
    /\ FetchedKeys(in_flight[1]) = FetchedKeys(in_flight[2])

\* C27: when two publish requests of one scope have interleaved and selected
\* the same unpublished results, each of these results is published, as after
\* a single publish, two ResultPublication rows of the scope exist, and their
\* total_students add up to more than the number of results that went from
\* unpublished to published.
C27_ConcurrentPublish ==
    BothPublishedTheSame =>
        /\ \A k \in FetchedKeys(in_flight[1]) :
               \E p \in semester_results :
                   /\ << p.student, p.semester, p.academic_year >> = k
                   /\ p.is_published
                   /\ p.published_date # << >>
        /\ \E i, j \in 1..Len(result_publications) :
               /\ i # j
               /\ \A x \in {i, j} :
                      /\ result_publications[x].semester = in_flight[1].semester
                      /\ result_publications[x].academic_year = in_flight[1].academic_year
                      /\ result_publications[x].program = in_flight[1].program
               /\ result_publications[i].total_students
                      + result_publications[j].total_students
                          > Cardinality(FetchedKeys(in_flight[1]))

\* Both workers have published the same two results: two publications of 2
\* students each are on record for 2 published results.
C27_Witness ==
    /\ BothPublishedTheSame
    /\ Cardinality(FetchedKeys(in_flight[1])) = 2
    /\ Len(result_publications) = 2
    /\ result_publications[1].total_students = 2
    /\ result_publications[2].total_students = 2
    /\ Cardinality({r \in semester_results : r.is_published}) = 2

\* C28: in a bulk marks entry a row whose internal or external value is not
\* a number or is negative is counted in error_count (with the rows the
\* database refuses), and no SemesterResult and no SubjectMarks of its
\* student is created or changed.
C28_InvalidRowsRejected ==
    [][\A payload \in [RosterSet("MCA101") -> MarksRows] :
          teacher_marks_entry("t1", "MCA101", payload)
          => /\ \A student \in RosterSet("MCA101") :
                    payload[student].kind \in {"text", "negative"}
                    => /\ {r \in semester_results' : r.student = student}
                              = {r \in semester_results : r.student = student}
                       /\ {m \in subject_marks' : m.student = student}
                              = {m \in subject_marks : m.student = student}
             /\ last'.error_count
                    = Cardinality({st \in RosterSet("MCA101") :
                                      payload[st].kind \in {"text", "negative"}})
                      + Cardinality({st \in RosterSet("MCA101") :
                                        payload[st].kind = "overflow"})]_vars

\* A first submission with two invalid rows has been answered with two
\* errors and has left both tables empty.
C28_Witness ==
    /\ last.op = "marks_entry" /\ last.error_count = 2 /\ last.success_count = 0
    /\ semester_results = {}
    /\ subject_marks = {}

\* C29: in every state reached through marks entry, publish and unpublish,
\* a SemesterResult has is_published = True if and only if its published_date
\* is not null.
C29_PublishedIffDated ==
    \A r \in semester_results : r.is_published <=> (r.published_date # << >>)

\* After an unpublish, a result that was withdrawn (it keeps its sgpa and has
\* no date) stands beside a result of another semester that is published and
\* dated.
C29_Witness ==
    /\ last.op = "unpublish" /\ last.success_count > 0
    /\ \E r1, r2 \in semester_results :
           /\ ~r1.is_published /\ r1.published_date = << >> /\ r1.sgpa # << >>
           /\ r2.is_published /\ r2.published_date # << >>

\* C30: a step that the marks entry view answers (the only steps that leave
\* a "marks_entry" response) leaves every existing SemesterResult
\* as it is (is_published, published_date, sgpa, total_credits and
\* credits_earned included), creates results with the column defaults only,
\* and creates or changes only marks of the subject that belong to students
\* of the roster; the stored sgpa of a published result changes only with a
\* later publish.
C30_MarksEntryFrame ==
    [][last'.op = "marks_entry"
       => /\ \A r \in semester_results : r \in semester_results'
          /\ \E subject \in Subjects :
                 /\ \A r \in semester_results' \ semester_results :
                        /\ r.student \in RosterSet(subject)
                        /\ r = NewSemesterResult(r.student, subject_semester(subject),
                                                 current_academic_year)
                 /\ \A m \in (subject_marks' \ subject_marks)
                                \cup (subject_marks \ subject_marks') :
                        m.student \in RosterSet(subject) /\ m.subject = subject
          /\ UNCHANGED << attendance, result_publications >>]_vars

\* A marks entry has just changed the marks of a published result of the
\* student's second semester: the result keeps its date and an sgpa that is
\* no longer the one of its marks, and the result of the first semester, for
\* which the student is on no roster, is there as well.
C30_Witness ==
    /\ last.op = "marks_entry" /\ last.status = "saved" /\ last.success_count = 1
    /\ \E r1, r2 \in semester_results :
           /\ r1.student = r2.student
           /\ r1.semester = 1 /\ r2.semester = 2
           /\ current_semester[r2.student] = 2
           /\ r2.is_published /\ r2.published_date # << >>
           /\ r2.sgpa # << >>
           /\ r2.sgpa # << SgpaOf(MarksOf(subject_marks, r2)) >>

====
